---- MODULE Spec2Model ----
(***************************************************************************)
(* Resume_Builder: the resume synthesizer of services/resume_matcher.py.   *)
(* One request to ResumeMatcher.generate_tailored_resume is a run of the   *)
(* state machine: the two external calls (skill extraction, resume         *)
(* generation) are steps whose outcome is chosen by the environment, the   *)
(* post-generation override and the except handler are the code's own      *)
(* steps.                                                                  *)
(*                                                                         *)
(* Text is modelled at character level: a string is a sequence of          *)
(* one-character strings, so lower(), substring tests, re.findall and      *)
(* re.split are computed as Python computes them.  Opaque fields (names,   *)
(* e-mail addresses, periods) are TLA+ strings.                            *)
(*                                                                         *)
(* Spec follows one click on Generate in app.py: the request to            *)
(* generate_tailored_resume and then the handler's rendering step.         *)
(* SpecStore is the profile store of app.py (save_profile, load_profile,   *)
(* delete_profile, get_available_profiles) over a directory of JSON files. *)
(* SpecSummary runs _extract_keywords and _generate_summary on sample      *)
(* texts.  SpecForm is the "Create New Profile" form of app.py with its    *)
(* two counters in st.session_state.  SpecWriters is two save_profile      *)
(* calls on one file, each an open and a write.                            *)
(***************************************************************************)
EXTENDS Integers, Sequences, FiniteSets, TLC

VARIABLES
    pc,               \* position in generate_tailored_resume
    job_description,  \* argument: the job description text
    experience_data,  \* self.experience_data: the free-text experience
    user_info,        \* argument: the candidate facts built by app.py
    skills,           \* local `skills` (result of extract_sills)
    completion,       \* the parsed output of the generation call, as returned
    resume_data,      \* local `resume_data` after the in-place overrides
    exception,        \* the exception in flight, None when there is none
    result,           \* what generate_tailored_resume gave its caller
    calls,            \* log of the external calls made by this request
    pdf_generator,    \* services["pdf_generator"] of app.py, None when absent
    page,             \* what the generate handler of app.py has put on the page
    legacy_keywords,  \* local `keywords` of _legacy_generate_tailored_resume
    legacy_summary,   \* local `summary` of _legacy_generate_tailored_resume
    files,            \* the profiles directory of app.py: file stem -> content
    log,              \* the profile store operations made so far, with outcomes
    target_job_title, \* the "Target Job Title" input of the generate handler
    selected_profile, \* the profile picked for the generate handler
    session_state,    \* st.session_state of the profile form
    widgets,          \* the values of the inputs of the profile form
    profile_kwargs,   \* the arguments of the form's last ProfileData(...) call
    handles,          \* the file objects of the save_profile calls under way
    disk              \* the profile files, character by character

\* the variables of the generate handler around the request
handler_vars == <<pdf_generator, page>>

\* the variables of one generate_tailored_resume request and its handler
request_vars == <<pc, job_description, experience_data, user_info, skills,
                  completion, resume_data, exception, result, calls,
                  pdf_generator, page, legacy_keywords,
                  legacy_summary>>

\* the locals of the fallback path
local_vars == <<legacy_keywords, legacy_summary>>

\* the variables of the profile store
store_vars == <<files, log>>

\* the inputs of the generate handler that user_info is built from
title_vars == <<target_job_title, selected_profile>>

\* the variables of the profile form
form_vars == <<session_state, widgets, profile_kwargs>>

\* the variables of two save_profile calls that run at the same time
writer_vars == <<handles, disk>>

vars == <<pc, job_description, experience_data, user_info, skills, completion,
          resume_data, exception, result, calls, pdf_generator, page,
          legacy_keywords, legacy_summary, files, log, target_job_title,
          selected_profile, session_state, widgets, profile_kwargs, handles, disk>>

\* The profiles directory as get_profiles_directory creates it: no file.
EmptyStore == <<>>

\* Python's None.
None == "None"

(***************************************************************************)
(* Bounds of the model.                                                    *)
(***************************************************************************)
\* The generation call may return any number of experience entries; the
\* model lets it return 0..MaxGenExp.
MaxGenExp == 4

\* The profile form offers at most 3 employment and 2 education entries.
MaxEmploymentEntries == 3
MaxEducationEntries == 2

(***************************************************************************)
(* Strings.                                                                *)
(***************************************************************************)
UpperLetters == <<"A", "B", "C", "D", "E", "F", "G", "H", "I", "J", "K", "L", "M",
                  "N", "O", "P", "Q", "R", "S", "T", "U", "V", "W", "X", "Y", "Z">>
LowerLetters == <<"a", "b", "c", "d", "e", "f", "g", "h", "i", "j", "k", "l", "m",
                  "n", "o", "p", "q", "r", "s", "t", "u", "v", "w", "x", "y", "z">>
Digits == {"0", "1", "2", "3", "4", "5", "6", "7", "8", "9"}
Whitespace == {" ", "\n", "\t", "\r"}

IsUpper(c) == \E i \in 1..Len(UpperLetters) : UpperLetters[i] = c
IsLetter(c) == IsUpper(c) \/ \E i \in 1..Len(LowerLetters) : LowerLetters[i] = c
\* \w of the re module
IsWordChar(c) == IsLetter(c) \/ c \in Digits \/ c = "_"

\* str.lower() on one character.
LowerChar(c) ==
    IF IsUpper(c)
    THEN LowerLetters[CHOOSE i \in 1..Len(UpperLetters) : UpperLetters[i] = c]
    ELSE c

\* str.lower()
Lower(s) == [i \in 1..Len(s) |-> LowerChar(s[i])]

\* s.startswith(p, i) with i counted from 1
StartsWithAt(s, p, i) ==
    /\ i + Len(p) - 1 <= Len(s)
    /\ \A j \in 1..Len(p) : s[i + j - 1] = p[j]

\* Python's `needle in hay` for strings
IsSubstring(needle, hay) ==
    \E i \in 1..(Len(hay) + 1) : StartsWithAt(hay, needle, i)

\* sep.join(parts)
RECURSIVE Join(_, _)
Join(sep, parts) ==
    IF parts = <<>> THEN <<>>
    ELSE IF Len(parts) = 1 THEN parts[1]
    ELSE parts[1] \o sep \o Join(sep, Tail(parts))

\* The elements of a finite set of integers in increasing order.
Ascending(S) ==
    [k \in 1..Cardinality(S) |->
        CHOOSE i \in S : Cardinality({j \in S : j < i}) = k - 1]

\* s.strip()
Strip(s) ==
    LET solid == {i \in 1..Len(s) : s[i] \notin Whitespace}
    IN  IF solid = {} THEN <<>>
        ELSE SubSeq(s, CHOOSE i \in solid : \A j \in solid : i <= j,
                       CHOOSE i \in solid : \A j \in solid : j <= i)

\* s.split(sep)[0]: s up to the first occurrence of sep
SplitFirst(s, sep) ==
    LET at == {i \in 1..Len(s) : StartsWithAt(s, sep, i)}
    IN  IF at = {} THEN s
        ELSE SubSeq(s, 1, (CHOOSE i \in at : \A j \in at : i <= j) - 1)

\* The maximal runs of \w characters of s, in order.
WordRuns(s) ==
    LET starts == {i \in 1..Len(s) :
                      IsWordChar(s[i]) /\ (i = 1 \/ ~IsWordChar(s[i - 1]))}
        ends == {i \in 1..Len(s) :
                      IsWordChar(s[i]) /\ (i = Len(s) \/ ~IsWordChar(s[i + 1]))}
        from == Ascending(starts)
        to == Ascending(ends)
    IN  [k \in 1..Len(from) |-> SubSeq(s, from[k], to[k])]

AllLetters(w) == \A i \in 1..Len(w) : IsLetter(w[i])

\* re.findall(r'\b[a-zA-Z]+\b', s): a match starts and ends at a word boundary,
\* so it is a whole run of \w characters, and it consists of letters only.
Findall(s) == SelectSeq(WordRuns(s), AllLetters)

HeadingTwo == <<"\n", "#", "#", " ">>
HeadingThree == <<"\n", "#", "#", "#", " ">>

\* re.split(r'\n#{2,3} ', s): cut at every "\n## " and "\n### ".  A match
\* begins with the only newline it holds, so no two matches overlap.
SplitHeadings(s) ==
    LET MatchLen(i) == IF StartsWithAt(s, HeadingTwo, i) THEN Len(HeadingTwo)
                       ELSE IF StartsWithAt(s, HeadingThree, i) THEN Len(HeadingThree)
                       ELSE 0
        cuts == Ascending({i \in 1..Len(s) : MatchLen(i) > 0})
        n == Len(cuts)
        First(k) == IF k = 1 THEN 1 ELSE cuts[k - 1] + MatchLen(cuts[k - 1])
        Last(k) == IF k = n + 1 THEN Len(s) ELSE cuts[k] - 1
    IN  [k \in 1..(n + 1) |-> SubSeq(s, First(k), Last(k))]

(***************************************************************************)
(* The keyword-overlap fallback summary.                                   *)
(***************************************************************************)
common_words ==
    { <<"t","h","e">>, <<"a","n","d">>, <<"a">>, <<"t","o">>, <<"o","f">>, <<"i","n">>,
      <<"w","i","t","h">>, <<"f","o","r">>, <<"o","n">>, <<"i","s">>, <<"a","r","e">>,
      <<"y","o","u">>, <<"w","i","l","l">>, <<"b","e">> }

MinKeywordLen == 3
TopKeywords == 15
TopSections == 3
max_length == 1500
MinSummaryLen == 100

IsKeyword(w) == w \notin common_words /\ Len(w) > MinKeywordLen

\* keyword_freq: the distinct words in order of first occurrence, each with
\* its number of occurrences (a dict keeps insertion order).
RECURSIVE CountFrequencies(_, _)
CountFrequencies(words, freq) ==
    IF words = <<>> THEN freq
    ELSE LET w == Head(words)
             at == {i \in 1..Len(freq) : freq[i][1] = w}
         IN  IF at = {}
             THEN CountFrequencies(Tail(words), Append(freq, <<w, 1>>))
             ELSE LET i == CHOOSE k \in at : TRUE
                  IN  CountFrequencies(Tail(words),
                          [freq EXCEPT ![i] = <<w, freq[i][2] + 1>>])

\* sorted(items, key=lambda x: x[1], reverse=True): by descending count, stable.
InsertByCount(sorted, x) ==
    LET smaller == {i \in 1..Len(sorted) : sorted[i][2] < x[2]}
        at == IF smaller = {} THEN Len(sorted) + 1
              ELSE CHOOSE i \in smaller : \A k \in smaller : i <= k
    IN  SubSeq(sorted, 1, at - 1) \o <<x>> \o SubSeq(sorted, at, Len(sorted))

RECURSIVE SortByCount(_, _)
SortByCount(items, sorted) ==
    IF items = <<>> THEN sorted
    ELSE SortByCount(Tail(items), InsertByCount(sorted, Head(items)))

Min(a, b) == IF a <= b THEN a ELSE b

\* extract_keywords without the sort: the words in order of first occurrence
extract_keywords_unsorted(jd) ==
    LET words == Findall(Lower(jd))
        keywords == SelectSeq(words, IsKeyword)
        keyword_freq == CountFrequencies(keywords, <<>>)
        n == Min(TopKeywords, Len(keyword_freq))
    IN  [i \in 1..n |-> keyword_freq[i][1]]

extract_keywords(jd) ==
    LET words == Findall(Lower(jd))
        keywords == SelectSeq(words, IsKeyword)
        keyword_freq == CountFrequencies(keywords, <<>>)
        sorted_keywords == SortByCount(keyword_freq, <<>>)
        n == Min(TopKeywords, Len(sorted_keywords))
    IN  [i \in 1..n |-> sorted_keywords[i][1]]

\* The fixed generic closing statement.
GenericStatement ==
    <<" ", "E", "x", "p", "e", "r", "i", "e", "n", "c", "e", "d", " ", "p", "r", "o",
      "f", "e", "s", "s", "i", "o", "n", "a", "l", " ", "w", "i", "t", "h", " ", "a",
      " ", "t", "r", "a", "c", "k", " ", "r", "e", "c", "o", "r", "d", " ", "o", "f",
      " ", "d", "e", "l", "i", "v", "e", "r", "i", "n", "g", " ", "h", "i", "g", "h",
      "-", "q", "u", "a", "l", "i", "t", "y", " ", "r", "e", "s", "u", "l", "t", "s",
      ".", " ", "S", "k", "i", "l", "l", "e", "d", " ", "i", "n", " ", "p", "r", "o",
      "b", "l", "e", "m", "-", "s", "o", "l", "v", "i", "n", "g", " ", "a", "n", "d",
      " ", "a", "d", "a", "p", "t", "i", "n", "g", " ", "t", "o", " ", "n", "e", "w",
      " ", "c", "h", "a", "l", "l", "e", "n", "g", "e", "s", ".", " ", "C", "o", "m",
      "m", "i", "t", "t", "e", "d", " ", "t", "o", " ", "c", "o", "n", "t", "i", "n",
      "u", "o", "u", "s", " ", "l", "e", "a", "r", "n", "i", "n", "g", " ", "a", "n",
      "d", " ", "p", "r", "o", "f", "e", "s", "s", "i", "o", "n", "a", "l", " ", "g",
      "r", "o", "w", "t", "h", ".">>

\* The places where keyword i occurs in the lowered section, as <<i, place>>.
KeywordPlaces(section, keywords) ==
    LET lowered == Lower(section)
    IN  {ip \in (1..Len(keywords)) \X (1..Len(section)) :
            StartsWithAt(lowered, keywords[ip[1]], ip[2])}

\* a score that counts every occurrence of every keyword
keyword_occurrences(section, keywords) ==
    Cardinality(KeywordPlaces(section, keywords))

\* sum(1 for keyword in keywords if keyword in section.lower())
keyword_count(section, keywords) ==
    Cardinality({i \in 1..Len(keywords) : IsSubstring(keywords[i], Lower(section))})

\* relevant_experience: the sections with a positive count, paired with it
RECURSIVE RelevantExperience(_, _)
RelevantExperience(sections, keywords) ==
    IF sections = <<>> THEN <<>>
    ELSE LET c == keyword_count(Head(sections), keywords)
             rest == RelevantExperience(Tail(sections), keywords)
         IN  IF c > 0 THEN <<(<<Head(sections), c>>)>> \o rest ELSE rest

\* relevant_experience after relevant_experience.sort(key=count, reverse=True)
RankedSections(experience, keywords) ==
    SortByCount(RelevantExperience(SplitHeadings(experience), keywords), <<>>)

\* section.split('\n\n')[0].strip()
FirstParagraph(section) == Strip(SplitFirst(section, <<"\n", "\n">>))

\* the loop without the test against max_length
RECURSIVE SummaryPartsUnbounded(_, _, _)
SummaryPartsUnbounded(ranked, parts, total_length) ==
    IF ranked = <<>> THEN parts
    ELSE SummaryPartsUnbounded(Tail(ranked),
                               Append(parts, FirstParagraph(Head(ranked)[1])),
                               total_length)

\* The loop over relevant_experience[:3]: a first paragraph is kept when it
\* fits into what is left of max_length.
RECURSIVE SummaryParts(_, _, _)
SummaryParts(ranked, parts, total_length) ==
    IF ranked = <<>> THEN parts
    ELSE LET first_para == FirstParagraph(Head(ranked)[1])
         IN  IF total_length + Len(first_para) <= max_length
             THEN SummaryParts(Tail(ranked), Append(parts, first_para),
                               total_length + Len(first_para))
             ELSE SummaryParts(Tail(ranked), parts, total_length)

\* generate_summary without the generic closing statement
generate_summary_unpadded(experience, keywords) ==
    LET relevant_experience == RankedSections(experience, keywords)
        top == SubSeq(relevant_experience, 1, Min(TopSections, Len(relevant_experience)))
    IN  Join(<<" ">>, SummaryParts(top, <<>>, 0))

generate_summary(experience, keywords) ==
    LET relevant_experience == RankedSections(experience, keywords)
        top == SubSeq(relevant_experience, 1, Min(TopSections, Len(relevant_experience)))
        summary == Join(<<" ">>, SummaryParts(top, <<>>, 0))
    IN  IF Len(summary) < MinSummaryLen THEN summary \o GenericStatement ELSE summary

(***************************************************************************)
(* The candidate facts (user_info) and the request's texts.                *)
(***************************************************************************)
\* titles are spelled out: 'ML Engineer', 'Data Scientist', 'AI Engineer'
TitleMLEngineer == <<"M", "L", " ", "E", "n", "g", "i", "n", "e", "e", "r">>
TitleDataScientist ==
    <<"D", "a", "t", "a", " ", "S", "c", "i", "e", "n", "t", "i", "s", "t">>
TitleAIEngineer == <<"A", "I", " ", "E", "n", "g", "i", "n", "e", "e", "r">>

Identities ==
    { [name |-> "Ann Lee", title |-> TitleMLEngineer, email |-> "ann@example.com",
       phone |-> "555-0101", location |-> "Austin, TX"],
      [name |-> "Bob Ray", title |-> TitleDataScientist, email |-> "bob@example.com",
       phone |-> "555-0102", location |-> "Boston, MA"] }

LinkedinUrl == "https://www.linkedin.com/in/username"
Linkedins == {None, "", LinkedinUrl}

EducationPool ==
    { [university_name |-> "MIT", period |-> "2015-2019", location |-> "Cambridge, MA",
       degree |-> "B.S. Computer Science"],
      [university_name |-> "Boston College", period |-> "2019-2021",
       location |-> "Boston, MA", degree |-> "M.S. Computer Science"] }

EmploymentPool ==
    { [company_name |-> "Acme", period |-> "Jan 2020 - Dec 2022", location |-> "Austin, TX"],
      [company_name |-> "Globex", period |-> "Feb 2018 - Dec 2019", location |-> "Boston, MA"] }

SeqsUpTo(S, n) == UNION {[1..k -> S] : k \in 0..n}

\* user_info as the generate handler of app.py builds it from a profile
UserInfos ==
    { [name |-> id.name, title |-> id.title, email |-> id.email, phone |-> id.phone,
       location |-> id.location, linkedin |-> li, education |-> edu,
       employment_history |-> hist] :
        id \in Identities, li \in Linkedins,
        edu \in SeqsUpTo(EducationPool, MaxEducationEntries),
        hist \in SeqsUpTo(EmploymentPool, MaxEmploymentEntries) }

\* 'Seeking Python and SQL skills. Python team, python3 is a plus'
JobDescriptionSkills ==
    <<"S", "e", "e", "k", "i", "n", "g", " ", "P", "y", "t", "h", "o", "n", " ", "a", "n", "d",
      " ", "S", "Q", "L", " ", "s", "k", "i", "l", "l", "s", ".", " ", "P", "y", "t", "h", "o",
      "n", " ", "t", "e", "a", "m", ",", " ", "p", "y", "t", "h", "o", "n", "3", " ", "i", "s",
      " ", "a", " ", "p", "l", "u", "s">>

\* 'Be on AI'
JobDescriptionPlain ==
    <<"B", "e", " ", "o", "n", " ", "A", "I">>

\* 'I code.\n## Work\n Python dev at Acme \n\nMore on SQL skills\n### Team\nLed a team\n#### Notes\nseeking'
ExperienceSections ==
    <<"I", " ", "c", "o", "d", "e", ".", "\n", "#", "#", " ", "W", "o", "r", "k", "\n", " ", "P",
      "y", "t", "h", "o", "n", " ", "d", "e", "v", " ", "a", "t", " ", "A", "c", "m", "e", " ",
      "\n", "\n", "M", "o", "r", "e", " ", "o", "n", " ", "S", "Q", "L", " ", "s", "k", "i", "l",
      "l", "s", "\n", "#", "#", "#", " ", "T", "e", "a", "m", "\n", "L", "e", "d", " ", "a", " ",
      "t", "e", "a", "m", "\n", "#", "#", "#", "#", " ", "N", "o", "t", "e", "s", "\n", "s", "e",
      "e", "k", "i", "n", "g">>

\* 'Ten years of work'
ExperiencePlain ==
    <<"T", "e", "n", " ", "y", "e", "a", "r", "s", " ", "o", "f", " ", "w", "o", "r", "k">>

\* '## Lead\nPython team lead. Python team lead. Python team lead. Python team lead. Python team lead. Python team lead. '
ExperienceLongPara ==
    <<"#", "#", " ", "L", "e", "a", "d", "\n", "P", "y", "t", "h", "o", "n", " ", "t", "e", "a",
      "m", " ", "l", "e", "a", "d", ".", " ", "P", "y", "t", "h", "o", "n", " ", "t", "e", "a",
      "m", " ", "l", "e", "a", "d", ".", " ", "P", "y", "t", "h", "o", "n", " ", "t", "e", "a",
      "m", " ", "l", "e", "a", "d", ".", " ", "P", "y", "t", "h", "o", "n", " ", "t", "e", "a",
      "m", " ", "l", "e", "a", "d", ".", " ", "P", "y", "t", "h", "o", "n", " ", "t", "e", "a",
      "m", " ", "l", "e", "a", "d", ".", " ", "P", "y", "t", "h", "o", "n", " ", "t", "e", "a",
      "m", " ", "l", "e", "a", "d", ".", " ">>
JobDescriptions == {JobDescriptionSkills, JobDescriptionPlain}
ExperienceTexts == {ExperienceSections, ExperiencePlain, ExperienceLongPara}

(***************************************************************************)
(* What the two external calls may return.                                 *)
(***************************************************************************)
\* A value that is None where a record is expected.
NoneValue == [none |-> TRUE]

SkillPython == <<"P", "y", "t", "h", "o", "n">>
SkillSQL == <<"S", "Q", "L">>
SkillTeamwork == <<"t", "e", "a", "m", "w", "o", "r", "k">>

\* Outputs of the skill extraction call: a Skills object, or None when the
\* response carries no parsed output.
ExtractedSkills ==
    { [hard_skills |-> <<SkillPython, SkillSQL>>, soft_skills |-> <<SkillTeamwork>>],
      [hard_skills |-> <<>>, soft_skills |-> <<>>] }
ExtractionOutputs == ExtractedSkills \cup {NoneValue}

GenStyles == {"covering", "generic"}

GenSummary(style) ==
    IF style = "covering"
    THEN <<"P", "Y", "T", "H", "O", "N", " ", "e", "x", "p", "e", "r", "t">>
    ELSE <<"A", "I", " ", "e", "x", "p", "e", "r", "t">>

GenBullets(style, i) ==
    IF style = "covering"
    THEN << [bullet_point |-> <<"B", "u", "i", "l", "t", " ", "s", "q", "l", " ", "E", "T", "L">>],
            [bullet_point |-> <<"L", "e", "d", " ", "t", "e", "a", "m">>] >>
    ELSE << [bullet_point |-> <<"L", "e", "d", " ", "t", "e", "a", "m">>],
            [bullet_point |-> <<"L", "e", "d", " ", "d", "e", "m", "o", "s">>] >>

GenSkills(style) ==
    IF style = "covering"
    THEN << [category |-> <<"S", "o", "f", "t">>,
             skill_list |-> <<"T", "e", "a", "m", "w", "o", "r", "k">>] >>
    ELSE <<>>

GenCompanies == <<"NovaTech", "Initech", "Hooli", "Umbrella", "Vandelay", "Wonka">>

GenExperience(style, i) ==
    [company_info |-> [name |-> GenCompanies[i], period |-> "Apr 2023 - Present",
                       location |-> "City, ST"],
     job_title |-> "LEAD AI SCIENTIST",
     bullet_points |-> GenBullets(style, i)]

\* A structured output of the generation call: every field is the model's.
GenOutput(style, k) ==
    [name |-> "Jane Doe", title |-> TitleAIEngineer,
     email |-> "professional.email@domain.com", phone |-> "(XXX) XXX-XXXX",
     location |-> "City, ST", linkedin |-> "linkedin.com/in/yourprofile",
     summary |-> GenSummary(style),
     experiences |-> [i \in 1..k |-> GenExperience(style, i)],
     education |-> << [university_name |-> "Boston College",
                       period |-> "Sep 2019 - May 2023", location |-> "City, ST",
                       degree |-> "B.S. in Computer Science"] >>,
     employment_history |-> <<>>,
     skills |-> GenSkills(style)]

\* Outputs of the generation call: a parsed ResumeData with any number of
\* experience entries, or None when the message carries no parsed object.
GenerationOutputs ==
    {GenOutput(style, k) : style \in GenStyles, k \in 0..MaxGenExp} \cup {NoneValue}

(***************************************************************************)
(* generate_tailored_resume: the post-generation override.                 *)
(***************************************************************************)
\* Education(**edu)
EducationFromDict(edu) ==
    [university_name |-> edu.university_name, period |-> edu.period,
     location |-> edu.location, degree |-> edu.degree]

\* Python truthiness of an Optional[str]
Truthy(s) == s # None /\ s # ""

\* OverrideResumeData that also cuts the experiences down to the employment
\* history's length
OverrideResumeDataTruncating(parsed, ui) ==
    LET hist == ui.employment_history
        n == IF Len(parsed.experiences) <= Len(hist) THEN Len(parsed.experiences)
             ELSE Len(hist)
    IN  [parsed EXCEPT !.name = ui.name, !.email = ui.email,
                       !.location = ui.location, !.linkedin = ui.linkedin,
                       !.experiences =
                           [i \in 1..n |->
                               [parsed.experiences[i] EXCEPT
                                   !.company_info = [name |-> hist[i].company_name,
                                                     period |-> hist[i].period,
                                                     location |-> hist[i].location]]]]

\* OverrideResumeData that fills the experiences up to the employment
\* history's length with entries of its own
OverrideResumeDataPadding(parsed, ui) ==
    LET hist == ui.employment_history
        n == IF Len(parsed.experiences) <= Len(hist) THEN Len(hist)
             ELSE Len(parsed.experiences)
        company(i) == [name |-> hist[i].company_name, period |-> hist[i].period,
                       location |-> hist[i].location]
    IN  [parsed EXCEPT !.name = ui.name, !.email = ui.email,
                       !.location = ui.location, !.linkedin = ui.linkedin,
                       !.experiences =
                           [i \in 1..n |->
                               IF i > Len(parsed.experiences)
                               THEN [company_info |-> company(i), job_title |-> "",
                                     bullet_points |-> <<>>]
                               ELSE IF i <= Len(hist)
                               THEN [parsed.experiences[i] EXCEPT
                                        !.company_info = company(i)]
                               ELSE parsed.experiences[i]]]

\* resume_data after the in-place overrides of the identity fields and of the
\* company_info of the experiences that have a real employment entry
OverrideResumeData(parsed, ui) ==
    LET hist == ui.employment_history
        experiences ==
            [i \in 1..Len(parsed.experiences) |->
                IF hist # <<>> /\ i <= Len(hist)
                THEN [parsed.experiences[i] EXCEPT
                        !.company_info = [name |-> hist[i].company_name,
                                          period |-> hist[i].period,
                                          location |-> hist[i].location]]
                ELSE parsed.experiences[i]]
    IN  [parsed EXCEPT !.name = ui.name, !.email = ui.email,
                       !.location = ui.location, !.linkedin = ui.linkedin,
                       !.experiences = experiences]

\* education_data: the candidate's education, entry by entry
education_data(ui) ==
    [i \in 1..Len(ui.education) |-> EducationFromDict(ui.education[i])]

\* employment_history_data: initialised empty; the loop that filled it is
\* commented out
employment_history_data(ui) == <<>>

linkedin_profile(ui) ==
    IF Truthy(ui.linkedin)
    THEN "<a href=\"" \o ui.linkedin \o "\">LinkedIn</a>"
    ELSE ""

\* PrimaryResume with a copy-paste slip in the contact fields
PrimaryResumeSlip(rd, ui) ==
    [name |-> ui.name, title |-> ui.title, email |-> ui.phone, phone |-> ui.phone,
     location |-> ui.location, linkedin |-> linkedin_profile(ui),
     summary |-> rd.summary, experiences |-> rd.experiences,
     education |-> education_data(ui),
     employment_history |-> employment_history_data(ui),
     skills |-> rd.skills]

\* PrimaryResume that leaves the skills section out
PrimaryResumeNoSkills(rd, ui) ==
    [name |-> ui.name, title |-> ui.title, email |-> ui.email, phone |-> ui.phone,
     location |-> ui.location, linkedin |-> linkedin_profile(ui),
     summary |-> rd.summary, experiences |-> rd.experiences,
     education |-> education_data(ui),
     employment_history |-> employment_history_data(ui),
     skills |-> <<>>]

\* The ResumeData returned on the primary path
PrimaryResume(rd, ui) ==
    [name |-> ui.name, title |-> ui.title, email |-> ui.email, phone |-> ui.phone,
     location |-> ui.location, linkedin |-> linkedin_profile(ui),
     summary |-> rd.summary, experiences |-> rd.experiences,
     education |-> education_data(ui),
     employment_history |-> employment_history_data(ui),
     skills |-> rd.skills]

(***************************************************************************)
(* _legacy_generate_tailored_resume: the fallback.                         *)
(***************************************************************************)
PlaceholderBullets ==
    <<<<<<"E", "n", "g", "i", "n", "e", "e", "r", "e", "d", " ", "a", " ", "s", "u", "p", "e", "r",
          "v", "i", "s", "o", "r", "-", "o", "r", "c", "h", "e", "s", "t", "r", "a", "t", "e", "d",
          " ", "m", "u", "l", "t", "i", "-", "a", "g", "e", "n", "t", " ", "s", "y", "s", "t", "e",
          "m", " ", "o", "n", " ", "A", "z", "u", "r", "e", ",", " ", "l", "e", "v", "e", "r", "a",
          "g", "i", "n", "g", " ", "L", "a", "n", "g", "G", "r", "a", "p", "h", "'", "s", " ", "s",
          "t", "a", "t", "e", "f", "u", "l", " ", "e", "x", "e", "c", "u", "t", "i", "o", "n", " ",
          "c", "a", "p", "a", "b", "i", "l", "i", "t", "i", "e", "s", ",", " ", "r", "e", "d", "u",
          "c", "i", "n", "g", " ", "d", "a", "t", "a", " ", "e", "n", "g", "i", "n", "e", "e", "r",
          "i", "n", "g", " ", "d", "e", "v", "e", "l", "o", "p", "m", "e", "n", "t", " ", "t", "i",
          "m", "e", " ", "b", "y", " ", "4", "0", "%", ".">>,
        <<"F", "u", "s", "e", "d", " ", "a", "g", "e", "n", "t", " ", "s", "y", "s", "t", "e", "m",
          "s", " ", "w", "i", "t", "h", " ", "A", "z", "u", "r", "e", " ", "O", "p", "e", "n", "A",
          "I", " ", "S", "e", "r", "v", "i", "c", "e", " ", "f", "o", "r", " ", "s", "o", "p", "h",
          "i", "s", "t", "i", "c", "a", "t", "e", "d", " ", "n", "a", "t", "u", "r", "a", "l", " ",
          "l", "a", "n", "g", "u", "a", "g", "e", " ", "u", "n", "d", "e", "r", "s", "t", "a", "n",
          "d", "i", "n", "g", ",", " ", "e", "n", "a", "b", "l", "i", "n", "g", " ", "a", "u", "t",
          "o", "m", "a", "t", "e", "d", " ", "t", "r", "a", "n", "s", "l", "a", "t", "i", "o", "n",
          " ", "o", "f", " ", "J", "i", "r", "a", " ", "i", "s", "s", "u", "e", "s", " ", "i", "n",
          "t", "o", " ", "o", "p", "t", "i", "m", "i", "z", "e", "d", " ", "d", "a", "t", "a", " ",
          "p", "i", "p", "e", "l", "i", "n", "e", " ", "c", "o", "d", "e", ".">>,
        <<"I", "m", "p", "l", "e", "m", "e", "n", "t", "e", "d", " ", "m", "u", "l", "t", "i", "-",
          "s", "t", "a", "g", "e", " ", "c", "o", "d", "e", " ", "v", "a", "l", "i", "d", "a", "t",
          "i", "o", "n", " ", "w", "i", "t", "h", "i", "n", " ", "t", "h", "e", " ", "L", "a", "n",
          "g", "G", "r", "a", "p", "h", " ", "f", "r", "a", "m", "e", "w", "o", "r", "k", ",", " ",
          "i", "n", "c", "o", "r", "p", "o", "r", "a", "t", "i", "n", "g", " ", "u", "n", "i", "t",
          " ", "t", "e", "s", "t", "s", " ", "a", "n", "d", " ", "i", "n", "t", "e", "g", "r", "a",
          "t", "i", "o", "n", " ", "t", "e", "s", "t", "s", ",", " ", "r", "e", "d", "u", "c", "i",
          "n", "g", " ", "m", "a", "n", "u", "a", "l", " ", "c", "o", "d", "e", " ", "r", "e", "v",
          "i", "e", "w", " ", "o", "v", "e", "r", "h", "e", "a", "d", " ", "b", "y", " ", "7", "0",
          "%", ".">>,
        <<"E", "n", "h", "a", "n", "c", "e", "d", " ", "c", "o", "n", "t", "e", "x", "t", "u", "a",
          "l", " ", "a", "w", "a", "r", "e", "n", "e", "s", "s", " ", "b", "y", " ", "c", "r", "e",
          "a", "t", "i", "n", "g", " ", "G", "r", "a", "p", "h", "R", "A", "G", " ", "s", "y", "s",
          "t", "e", "m", "s", " ", "u", "s", "i", "n", "g", " ", "N", "e", "o", "4", "j", " ", "i",
          "n", "t", "e", "g", "r", "a", "t", "e", "d", " ", "w", "i", "t", "h", " ", "A", "z", "u",
          "r", "e", " ", "A", "I", " ", "S", "e", "a", "r", "c", "h", ",", " ", "r", "e", "s", "u",
          "l", "t", "i", "n", "g", " ", "i", "n", " ", "a", "n", " ", "1", "8", "%", " ", "i", "m",
          "p", "r", "o", "v", "e", "m", "e", "n", "t", " ", "i", "n", " ", "c", "o", "d", "e", " ",
          "g", "e", "n", "e", "r", "a", "t", "i", "o", "n", " ", "a", "c", "c", "u", "r", "a", "c",
          "y", ".">>,
        <<"D", "e", "f", "i", "n", "e", "d", " ", "a", "n", "d", " ", "c", "o", "d", "i", "f", "i",
          "e", "d", " ", "r", "e", "u", "s", "a", "b", "l", "e", " ", "d", "o", "m", "a", "i", "n",
          "-", "s", "p", "e", "c", "i", "f", "i", "c", " ", "p", "r", "o", "c", "e", "s", "s", " ",
          "d", "e", "f", "i", "n", "i", "t", "i", "o", "n", " ", "l", "i", "b", "r", "a", "r", "i",
          "e", "s", " ", "(", "P", "D", "L", "s", ")", " ", "f", "o", "r", " ", "r", "a", "p", "i",
          "d", " ", "i", "n", "s", "t", "a", "n", "t", "i", "a", "t", "i", "o", "n", " ", "o", "f",
          " ", "p", "r", "e", "-", "c", "o", "n", "f", "i", "g", "u", "r", "e", "d", ",", " ", "i",
          "n", "d", "u", "s", "t", "r", "y", "-", "t", "a", "i", "l", "o", "r", "e", "d", " ", "a",
          "g", "e", "n", "t", " ", "w", "o", "r", "k", "f", "l", "o", "w", "s", ".">>>>,
      <<<<"L", "e", "d", " ", "a", "r", "c", "h", "i", "t", "e", "c", "t", "u", "r", "a", "l", " ",
          "d", "e", "s", "i", "g", "n", " ", "a", "n", "d", " ", "d", "e", "v", "e", "l", "o", "p",
          "m", "e", "n", "t", " ", "o", "f", " ", "c", "o", "m", "p", "l", "e", "x", " ", "m", "u",
          "l", "t", "i", "-", "a", "g", "e", "n", "t", " ", "A", "I", " ", "s", "y", "s", "t", "e",
          "m", "s", " ", "u", "s", "i", "n", "g", " ", "C", "r", "e", "w", "A", "I", " ", "a", "n",
          "d", " ", "L", "a", "n", "g", "C", "h", "a", "i", "n", ",", " ", "e", "n", "a", "b", "l",
          "i", "n", "g", " ", "a", "u", "t", "o", "n", "o", "m", "o", "u", "s", " ", "d", "e", "c",
          "i", "s", "i", "o", "n", "-", "m", "a", "k", "i", "n", "g", ",", " ", "r", "e", "s", "u",
          "l", "t", "i", "n", "g", " ", "i", "n", " ", "2", "5", "%", " ", "i", "m", "p", "r", "o",
          "v", "e", "m", "e", "n", "t", " ", "i", "n", " ", "f", "i", "r", "s", "t", "-", "c", "a",
          "l", "l", " ", "r", "e", "s", "o", "l", "u", "t", "i", "o", "n", " ", "r", "a", "t", "e",
          "s", ".">>,
        <<"D", "e", "s", "i", "g", "n", "e", "d", " ", "a", "n", "d", " ", "i", "m", "p", "l", "e",
          "m", "e", "n", "t", "e", "d", " ", "a", "g", "e", "n", "t", " ", "c", "o", "m", "m", "u",
          "n", "i", "c", "a", "t", "i", "o", "n", " ", "p", "r", "o", "t", "o", "c", "o", "l", "s",
          " ", "u", "s", "i", "n", "g", " ", "g", "R", "P", "C", " ", "a", "n", "d", " ", "R", "a",
          "b", "b", "i", "t", "M", "Q", ",", " ", "e", "n", "s", "u", "r", "i", "n", "g", " ", "r",
          "o", "b", "u", "s", "t", " ", "a", "n", "d", " ", "s", "c", "a", "l", "a", "b", "l", "e",
          " ", "i", "n", "t", "e", "r", "-", "a", "g", "e", "n", "t", " ", "c", "o", "m", "m", "u",
          "n", "i", "c", "a", "t", "i", "o", "n", " ", "w", "i", "t", "h", "i", "n", " ", "c", "u",
          "s", "t", "o", "m", "e", "r", " ", "s", "e", "r", "v", "i", "c", "e", " ", "p", "l", "a",
          "t", "f", "o", "r", "m", "s", ".">>,
        <<"D", "e", "v", "e", "l", "o", "p", "e", "d", " ", "b", "e", "l", "i", "e", "f", "-", "d",
          "e", "s", "i", "r", "e", "-", "i", "n", "t", "e", "n", "t", "i", "o", "n", " ", "(", "B",
          "D", "I", ")", " ", "a", "g", "e", "n", "t", " ", "a", "r", "c", "h", "i", "t", "e", "c",
          "t", "u", "r", "e", "s", " ", "w", "i", "t", "h", "i", "n", " ", "t", "h", "e", " ", "C",
          "r", "e", "w", "A", "I", " ", "f", "r", "a", "m", "e", "w", "o", "r", "k", ",", " ", "o",
          "p", "t", "i", "m", "i", "z", "i", "n", "g", " ", "f", "o", "r", " ", "r", "a", "p", "i",
          "d", " ", "r", "e", "s", "p", "o", "n", "s", "e", " ", "t", "i", "m", "e", "s", " ", "a",
          "n", "d", " ", "a", "c", "c", "u", "r", "a", "t", "e", " ", "i", "n", "f", "o", "r", "m",
          "a", "t", "i", "o", "n", " ", "r", "e", "t", "r", "i", "e", "v", "a", "l", ".">>,
        <<"O", "r", "c", "h", "e", "s", "t", "r", "a", "t", "e", "d", " ", "d", "e", "p", "l", "o",
          "y", "m", "e", "n", "t", " ", "o", "f", " ", "a", "g", "e", "n", "t", "i", "c", " ", "A",
          "I", " ", "s", "o", "l", "u", "t", "i", "o", "n", "s", " ", "o", "n", " ", "M", "i", "c",
          "r", "o", "s", "o", "f", "t", " ", "A", "z", "u", "r", "e", " ", "u", "s", "i", "n", "g",
          " ", "K", "u", "b", "e", "r", "n", "e", "t", "e", "s", " ", "a", "n", "d", " ", "A", "K",
          "S", ",", " ", "e", "n", "s", "u", "r", "i", "n", "g", " ", "s", "c", "a", "l", "a", "b",
          "i", "l", "i", "t", "y", " ", "a", "n", "d", " ", "f", "a", "u", "l", "t", " ", "t", "o",
          "l", "e", "r", "a", "n", "c", "e", ".">>,
        <<"P", "r", "o", "v", "i", "d", "e", "d", " ", "t", "e", "c", "h", "n", "i", "c", "a", "l",
          " ", "l", "e", "a", "d", "e", "r", "s", "h", "i", "p", " ", "t", "o", " ", "a", " ", "t",
          "e", "a", "m", " ", "o", "f", " ", "9", " ", "A", "I", " ", "e", "n", "g", "i", "n", "e",
          "e", "r", "s", ",", " ", "f", "o", "s", "t", "e", "r", "i", "n", "g", " ", "e", "x", "p",
          "e", "r", "t", "i", "s", "e", " ", "i", "n", " ", "a", "g", "e", "n", "t", "-", "b", "a",
          "s", "e", "d", " ", "m", "o", "d", "e", "l", "i", "n", "g", " ", "a", "n", "d", " ", "m",
          "u", "l", "t", "i", "-", "a", "g", "e", "n", "t", " ", "s", "y", "s", "t", "e", "m", " ",
          "d", "e", "s", "i", "g", "n", ".">>>>,
      <<<<"D", "e", "v", "e", "l", "o", "p", "e", "d", " ", "r", "o", "b", "u", "s", "t", " ", "b",
          "a", "c", "k", "e", "n", "d", " ", "s", "y", "s", "t", "e", "m", "s", " ", "u", "s", "i",
          "n", "g", " ", "P", "y", "t", "h", "o", "n", " ", "a", "n", "d", " ", "F", "l", "a", "s",
          "k", " ", "f", "r", "a", "m", "e", "w", "o", "r", "k", " ", "t", "o", " ", "a", "u", "t",
          "o", "m", "a", "t", "e", " ", "c", "o", "n", "f", "i", "g", "u", "r", "a", "t", "i", "o",
          "n", " ", "a", "n", "d", " ", "m", "a", "n", "a", "g", "e", "m", "e", "n", "t", " ", "o",
          "f", " ", "c", "o", "n", "t", "a", "c", "t", " ", "c", "e", "n", "t", "e", "r", " ", "d",
          "e", "p", "l", "o", "y", "m", "e", "n", "t", "s", ",", " ", "s", "t", "r", "e", "a", "m",
          "l", "i", "n", "i", "n", "g", " ", "s", "e", "t", "u", "p", " ", "p", "r", "o", "c", "e",
          "s", "s", "e", "s", ".">>,
        <<"I", "n", "t", "e", "g", "r", "a", "t", "e", "d", " ", "s", "y", "s", "t", "e", "m", "s",
          " ", "w", "i", "t", "h", " ", "p", "r", "o", "g", "r", "a", "m", "m", "a", "b", "l", "e",
          " ", "c", "o", "m", "m", "u", "n", "i", "c", "a", "t", "i", "o", "n", "s", " ", "A", "P",
          "I", "s", " ", "v", "i", "a", " ", "R", "E", "S", "T", "f", "u", "l", " ", "i", "n", "t",
          "e", "r", "f", "a", "c", "e", "s", ",", " ", "e", "n", "a", "b", "l", "i", "n", "g", " ",
          "p", "r", "o", "g", "r", "a", "m", "m", "a", "t", "i", "c", " ", "c", "o", "n", "t", "r",
          "o", "l", " ", "o", "v", "e", "r", " ", "c", "o", "n", "t", "a", "c", "t", " ", "c", "e",
          "n", "t", "e", "r", " ", "f", "e", "a", "t", "u", "r", "e", "s", " ", "a", "n", "d", " ",
          "w", "o", "r", "k", "f", "l", "o", "w", "s", ".">>,
        <<"I", "m", "p", "l", "e", "m", "e", "n", "t", "e", "d", " ", "c", "o", "r", "e", " ", "a",
          "u", "t", "o", "m", "a", "t", "i", "o", "n", " ", "l", "o", "g", "i", "c", " ", "u", "s",
          "i", "n", "g", " ", "P", "y", "t", "h", "o", "n", ",", " ", "l", "e", "v", "e", "r", "a",
          "g", "i", "n", "g", " ", "r", "e", "q", "u", "e", "s", "t", "s", " ", "l", "i", "b", "r",
          "a", "r", "y", " ", "f", "o", "r", " ", "A", "P", "I", " ", "i", "n", "t", "e", "r", "a",
          "c", "t", "i", "o", "n", " ", "a", "n", "d", " ", "S", "Q", "L", "A", "l", "c", "h", "e",
          "m", "y", " ", "f", "o", "r", " ", "d", "a", "t", "a", "b", "a", "s", "e", " ", "o", "p",
          "e", "r", "a", "t", "i", "o", "n", "s", ".">>,
        <<"D", "e", "s", "i", "g", "n", "e", "d", " ", "a", "n", "d", " ", "i", "m", "p", "l", "e",
          "m", "e", "n", "t", "e", "d", " ", "m", "e", "s", "s", "a", "g", "e", " ", "q", "u", "e",
          "u", "e", "-", "b", "a", "s", "e", "d", " ", "t", "a", "s", "k", " ", "m", "a", "n", "a",
          "g", "e", "m", "e", "n", "t", " ", "s", "y", "s", "t", "e", "m", "s", " ", "u", "s", "i",
          "n", "g", " ", "R", "a", "b", "b", "i", "t", "M", "Q", " ", "a", "n", "d", " ", "p", "i",
          "k", "a", ",", " ", "e", "n", "a", "b", "l", "i", "n", "g", " ", "a", "s", "y", "n", "c",
          "h", "r", "o", "n", "o", "u", "s", " ", "p", "r", "o", "c", "e", "s", "s", "i", "n", "g",
          " ", "o", "f", " ", "c", "o", "n", "f", "i", "g", "u", "r", "a", "t", "i", "o", "n", " ",
          "t", "a", "s", "k", "s", ".">>,
        <<"C", "r", "e", "a", "t", "e", "d", " ", "c", "o", "m", "p", "r", "e", "h", "e", "n", "s",
          "i", "v", "e", " ", "t", "e", "s", "t", "i", "n", "g", " ", "s", "u", "i", "t", "e", "s",
          " ", "u", "s", "i", "n", "g", " ", "p", "y", "t", "e", "s", "t", ",", " ", "a", "c", "h",
          "i", "e", "v", "i", "n", "g", " ", "9", "2", "%", " ", "c", "o", "d", "e", " ", "c", "o",
          "v", "e", "r", "a", "g", "e", " ", "a", "n", "d", " ", "r", "e", "d", "u", "c", "i", "n",
          "g", " ", "p", "r", "o", "d", "u", "c", "t", "i", "o", "n", " ", "i", "n", "c", "i", "d",
          "e", "n", "t", "s", " ", "b", "y", " ", "3", "5", "%", ".">>>>>>

\* The three placeholder experiences of the fallback path.
PlaceholderExperiences ==
    <<[company_info |-> [name |-> "Tech Innovators Inc.", period |-> "01/2021 - 05/2025",
                         location |-> "New York, NY"],
       job_title |-> "Senior AI Engineer",
       bullet_points |-> [j \in 1..Len(PlaceholderBullets[1]) |->
                             [bullet_point |-> PlaceholderBullets[1][j]]]],
      [company_info |-> [name |-> "Intelligent Solutions Group", period |-> "06/2018 - 12/2020",
                         location |-> "San Francisco, CA"],
       job_title |-> "Technology Architecture Lead",
       bullet_points |-> [j \in 1..Len(PlaceholderBullets[2]) |->
                             [bullet_point |-> PlaceholderBullets[2][j]]]],
      [company_info |-> [name |-> "Communication Systems Inc.", period |-> "01/2016 - 05/2018",
                         location |-> "Boston, MA"],
       job_title |-> "Python Developer",
       bullet_points |-> [j \in 1..Len(PlaceholderBullets[3]) |->
                             [bullet_point |-> PlaceholderBullets[3][j]]]]>>

\* keywords = self._extract_keywords(job_description);
\* summary = self._generate_summary(job_description, keywords),
\* tabulated over the request texts of the model (a pure function of them)
LocalKeywords == [jd \in JobDescriptions |-> extract_keywords(jd)]

LocalSummary ==
    [jd \in JobDescriptions |->
        [experience \in ExperienceTexts |->
            generate_summary(experience, LocalKeywords[jd])]]

legacy_generate_tailored_resume(jd, experience, ui) ==
    LET summary == LocalSummary[jd][experience]
    IN  [name |-> ui.name, title |-> ui.title, email |-> ui.email, phone |-> ui.phone,
         location |-> ui.location, linkedin |-> ui.linkedin,
         summary |-> summary, experiences |-> PlaceholderExperiences,
         education |-> <<>>, employment_history |-> <<>>, skills |-> <<>>]

(***************************************************************************)
(* The request as a state machine.                                         *)
(***************************************************************************)
NoResult == [kind |-> "none"]
Returned(r) == [kind |-> "returned", value |-> r]
Raised(e) == [kind |-> "raised", exc |-> e]

\* a handler that catches the API client's errors only
HandlerCatchesApiErrors(e) == e = "APIError"

\* `except Exception` catches every exception the try block can raise
HandlerCatches(e) == TRUE

\* the "Target Job Title" input: '', '  ', ' QA '
TargetJobTitles == {<<>>, <<" ", " ">>, <<" ", "Q", "A", " ">>}

\* a title taken from the input as it was typed
resume_title_unstripped(target, profile) ==
    IF target # <<>> /\ Strip(target) # <<>> THEN target ELSE profile.title

\* target_job_title.strip() if target_job_title and target_job_title.strip()
\* else selected_profile.title
resume_title(target, profile) ==
    IF target # <<>> /\ Strip(target) # <<>> THEN Strip(target) ELSE profile.title

\* the user_info dict the handler builds from the selected profile
UserInfo(target, profile) == [profile EXCEPT !.title = resume_title(target, profile)]

Init ==
    /\ pc = "extract"
    /\ job_description \in JobDescriptions
    /\ experience_data \in ExperienceTexts
    /\ selected_profile \in UserInfos
    /\ target_job_title \in TargetJobTitles
    /\ user_info = UserInfo(target_job_title, selected_profile)
    /\ skills = NoneValue
    /\ completion = NoneValue
    /\ resume_data = NoneValue
    /\ exception = None
    /\ result = NoResult
    /\ calls = <<>>
    /\ pdf_generator \in {None, "PDFGenerator"}
    /\ page = <<>>
    /\ legacy_keywords = <<>>
    /\ legacy_summary = <<>>
    /\ files = EmptyStore
    /\ log = <<>>
    /\ session_state = NoneValue
    /\ widgets = NoneValue
    /\ profile_kwargs = NoneValue
    /\ handles = <<>>
    /\ disk = <<>>

\* extract_sills returns and the request goes on to the generation call with
\* whatever came back, None included
ExtractSkillsReturnsUnchecked ==
    /\ pc = "extract"
    /\ \E s \in ExtractionOutputs : skills' = s
    /\ pc' = "generate"
    /\ calls' = Append(calls, "extract")
    /\ UNCHANGED <<job_description, experience_data, user_info, completion,
                   resume_data, exception, result>>
    /\ UNCHANGED <<handler_vars, store_vars, title_vars, form_vars, writer_vars, local_vars>>

\* extract_sills returns; the loops that print the skills raise
\* AttributeError when it returned None
ExtractSkillsReturns ==
    /\ pc = "extract"
    /\ \E s \in ExtractionOutputs :
        /\ skills' = s
        /\ IF s = NoneValue
           THEN pc' = "except" /\ exception' = "AttributeError"
           ELSE pc' = "generate" /\ exception' = exception
    /\ calls' = Append(calls, "extract")
    /\ UNCHANGED <<job_description, experience_data, user_info, completion,
                   resume_data, result>>
    /\ UNCHANGED <<handler_vars, store_vars, title_vars, form_vars, writer_vars, local_vars>>

\* the skill extraction call raises
ExtractSkillsRaises ==
    /\ pc = "extract"
    /\ pc' = "except"
    /\ exception' = "APIError"
    /\ calls' = Append(calls, "extract")
    /\ UNCHANGED <<job_description, experience_data, user_info, skills, completion,
                   resume_data, result>>
    /\ UNCHANGED <<handler_vars, store_vars, title_vars, form_vars, writer_vars, local_vars>>

\* the generation call returns: the overrides are applied and the ResumeData
\* is returned; a None parsed object raises AttributeError at the first override
GenerationReturns ==
    /\ pc = "generate"
    /\ \E out \in GenerationOutputs :
        /\ completion' = out
        /\ IF out = NoneValue
           THEN /\ pc' = "except"
                /\ exception' = "AttributeError"
                /\ UNCHANGED <<resume_data, result>>
           ELSE /\ resume_data' = OverrideResumeData(out, user_info)
                /\ result' = Returned(PrimaryResume(resume_data', user_info))
                /\ pc' = "done"
                /\ exception' = exception
    /\ calls' = Append(calls, "generate")
    /\ UNCHANGED <<job_description, experience_data, user_info, skills>>
    /\ UNCHANGED <<handler_vars, store_vars, title_vars, form_vars, writer_vars, local_vars>>

\* the generation call raises
GenerationRaises ==
    /\ pc = "generate"
    /\ pc' = "except"
    /\ exception' = "APIError"
    /\ calls' = Append(calls, "generate")
    /\ UNCHANGED <<job_description, experience_data, user_info, skills, completion,
                   resume_data, result>>
    /\ UNCHANGED <<handler_vars, store_vars, title_vars, form_vars, writer_vars, local_vars>>

\* a handler that asks the skill extractor once more before it returns the
\* legacy resume
FallbackRetrying ==
    /\ pc = "except"
    /\ legacy_keywords' = LocalKeywords[job_description]
    /\ legacy_summary' = LocalSummary[job_description][experience_data]
    /\ result' = Returned(legacy_generate_tailored_resume(
                              job_description, experience_data, user_info))
    /\ pc' = "done"
    /\ calls' = Append(calls, "extract")
    /\ UNCHANGED <<job_description, experience_data, user_info, skills, completion,
                   resume_data, exception>>
    /\ UNCHANGED <<handler_vars, store_vars, title_vars, form_vars, writer_vars>>

\* except Exception: return self._legacy_generate_tailored_resume(...)
Fallback ==
    /\ pc = "except"
    /\ IF HandlerCatches(exception)
       THEN /\ legacy_keywords' = LocalKeywords[job_description]
            /\ legacy_summary' = LocalSummary[job_description][experience_data]
            /\ result' = Returned(legacy_generate_tailored_resume(
                                      job_description, experience_data, user_info))
       ELSE /\ result' = Raised(exception)
            /\ UNCHANGED local_vars
    /\ pc' = "done"
    /\ UNCHANGED <<job_description, experience_data, user_info, skills, completion,
                   resume_data, exception, calls>>
    /\ UNCHANGED <<handler_vars, store_vars, title_vars, form_vars, writer_vars>>

\* The generate handler of app.py after generate_tailored_resume returned.
\* No renderer: a notice and the download of the resume data as JSON.
RendererAbsent ==
    /\ pc = "done"
    /\ result.kind = "returned"
    /\ pdf_generator = None
    /\ page' = <<"info", "json_download">>
    /\ pc' = "shown"
    /\ UNCHANGED <<job_description, experience_data, user_info, skills, completion,
                   resume_data, exception, result, calls, pdf_generator, store_vars, title_vars,
                   form_vars, writer_vars,
                   local_vars>>

\* generate_resume returns the two files: a link for each
GenerateResumeReturns ==
    /\ pc = "done"
    /\ result.kind = "returned"
    /\ pdf_generator # None
    /\ page' = <<"docx_link", "pdf_link">>
    /\ pc' = "shown"
    /\ UNCHANGED <<job_description, experience_data, user_info, skills, completion,
                   resume_data, exception, result, calls, pdf_generator, store_vars, title_vars,
                   form_vars, writer_vars,
                   local_vars>>

\* generate_resume raises: except Exception shows the error
GenerateResumeRaises ==
    /\ pc = "done"
    /\ result.kind = "returned"
    /\ pdf_generator # None
    /\ page' = <<"error">>
    /\ pc' = "shown"
    /\ UNCHANGED <<job_description, experience_data, user_info, skills, completion,
                   resume_data, exception, result, calls, pdf_generator, store_vars, title_vars,
                   form_vars, writer_vars,
                   local_vars>>

Next ==
    \/ ExtractSkillsReturns
    \/ ExtractSkillsRaises
    \/ GenerationReturns
    \/ GenerationRaises
    \/ Fallback
    \/ RendererAbsent
    \/ GenerateResumeReturns
    \/ GenerateResumeRaises

Spec == Init /\ [][Next]_vars

(***************************************************************************)
(* Properties of generate_tailored_resume.                                 *)
(***************************************************************************)
Done == pc = "done"
HasReturned == Done /\ result.kind = "returned"
\* skill extraction or the generation call failed: it raised, or it gave no
\* parsed output
CallFailed == exception # None
PrimaryPath == Done /\ exception = None
history == user_info.employment_history

ResumeDataFields ==
    {"name", "title", "email", "phone", "location", "linkedin", "summary",
     "experiences", "education", "employment_history", "skills"}

\* C1: generate_tailored_resume never raises to its caller: whatever the two
\* external calls do, the request ends with a ResumeData returned, and every
\* failure inside the primary path ends in the fallback result.
C1_NeverRaises ==
    Done =>
        /\ result.kind = "returned"
        /\ DOMAIN result.value = ResumeDataFields
        /\ CallFailed =>
               result.value = legacy_generate_tailored_resume(
                                  job_description, experience_data, user_info)

\* a request whose generation call gave no parsed object, so that the first
\* override raised AttributeError inside the try block, ended by a return
C1_Witness ==
    /\ HasReturned
    /\ exception = "AttributeError"
    /\ completion = NoneValue
    /\ calls = <<"extract", "generate">>

\* C2: whenever skill extraction or the generation call fails, the returned
\* ResumeData has exactly the 3 fixed placeholder experience entries, a
\* non-empty summary and an empty skills list.
C2_FallbackShape ==
    (Done /\ CallFailed) =>
        /\ result.kind = "returned"
        /\ Len(result.value.experiences) = 3
        /\ result.value.experiences = PlaceholderExperiences
        /\ Len(result.value.summary) > 0
        /\ result.value.skills = <<>>

\* the generation call raised and no section of the experience text matched
\* a keyword, so the summary is the generic statement alone
C2_Witness ==
    /\ HasReturned
    /\ exception = "APIError"
    /\ calls = <<"extract", "generate">>
    /\ result.value.summary = GenericStatement

\* C3: in every ResumeData returned, name, email and location are those of
\* user_info, whatever the generation call returned for them.
C3_IdentityOverride ==
    HasReturned =>
        /\ result.value.name = user_info.name
        /\ result.value.email = user_info.email
        /\ result.value.location = user_info.location

\* a primary-path return where the generation call's name, email and
\* location all differ from the candidate's
C3_Witness ==
    /\ HasReturned
    /\ PrimaryPath
    /\ completion.name # user_info.name
    /\ completion.email # user_info.email
    /\ completion.location # user_info.location

CompanyInfoOf(job) ==
    [name |-> job.company_name, period |-> job.period, location |-> job.location]

\* C4: for every employment history of length n and every output of the
\* generation call, every i < n has experiences[i].company_info equal to
\* employment_history[i] in name, period and location.
C4_EmployerOverrideAll ==
    (HasReturned /\ completion # NoneValue) =>
        \A i \in 1..Len(history) :
            /\ i <= Len(result.value.experiences)
            /\ result.value.experiences[i].company_info = CompanyInfoOf(history[i])

\* C5: with 1 <= n <= 3 employment entries and both calls succeeding, the
\* returned ResumeData has exactly n experience entries.
C5_ExperienceCount ==
    (HasReturned /\ PrimaryPath /\ Len(history) \in 1..MaxEmploymentEntries) =>
        Len(result.value.experiences) = Len(history)

\* C6 as claimed: with an empty employment history the fallback path is taken
\* and the returned ResumeData has the 3 fixed experience entries, even when
\* both calls succeed.
C6_EmptyHistoryFallsBack ==
    (HasReturned /\ history = <<>>) =>
        /\ Len(result.value.experiences) = 3
        /\ result.value = legacy_generate_tailored_resume(
                              job_description, experience_data, user_info)

\* C6 as amended: with an empty employment history and both calls succeeding
\* the primary path is taken and the returned experiences are exactly the
\* ones the generation call produced; the 3 fixed entries are returned only
\* when skill extraction or the generation call fails.
C6_EmptyHistoryPrimary ==
    (HasReturned /\ history = <<>>) =>
        IF CallFailed
        THEN result.value.experiences = PlaceholderExperiences
        ELSE result.value.experiences = completion.experiences

\* an empty history, both calls succeeded, and the generation call returned
\* a number of experiences other than 3
C6_Witness ==
    /\ HasReturned
    /\ PrimaryPath
    /\ history = <<>>
    /\ Len(completion.experiences) # 3
    /\ Len(result.value.experiences) = Len(completion.experiences)

\* C7: in every ResumeData returned, the education list equals the
\* candidate's education list of user_info, same entries in the same order.
C7_EducationIsReal ==
    HasReturned => result.value.education = user_info.education

\* C8: in every ResumeData returned, employment_history equals the
\* employment_history list of user_info.
C8_EmploymentHistoryEcho ==
    HasReturned => result.value.employment_history = user_info.employment_history

\* C9: in every ResumeData returned, linkedin is the candidate's URL wrapped
\* as an anchor when user_info has a non-empty linkedin, and "" otherwise.
C9_LinkedinAnchor ==
    HasReturned =>
        result.value.linkedin =
            IF Truthy(user_info.linkedin)
            THEN "<a href=\"" \o user_info.linkedin \o "\">LinkedIn</a>"
            ELSE ""

\* summary + all bullet points + the skills section, joined by newlines
ResumeText(r) ==
    LET bullets == [i \in 1..Len(r.experiences) |->
                       Join(<<"\n">>, [j \in 1..Len(r.experiences[i].bullet_points) |->
                                          r.experiences[i].bullet_points[j].bullet_point])]
        skillsection == [i \in 1..Len(r.skills) |->
                            r.skills[i].category \o <<"\n">> \o r.skills[i].skill_list]
    IN  Join(<<"\n">>, <<r.summary>> \o bullets \o skillsection)

\* C10: on the primary path every extracted hard and soft skill occurs,
\* case-insensitively, in summary + bullet points + skills section.
C10_SkillCoverage ==
    (HasReturned /\ PrimaryPath) =>
        \A list \in {skills.hard_skills, skills.soft_skills} :
            \A i \in 1..Len(list) :
                IsSubstring(Lower(list[i]), Lower(ResumeText(result.value)))

\* The first whitespace-delimited word of a bullet point.
FirstWord(text) == SplitFirst(Strip(text), <<" ">>)

\* The positions <<i, j>> of the bullet points of a ResumeData.
BulletPositions(r) ==
    UNION {{<<i, j>> : j \in 1..Len(r.experiences[i].bullet_points)} :
              i \in 1..Len(r.experiences)}

BulletAt(r, p) == r.experiences[p[1]].bullet_points[p[2]].bullet_point

\* C11: in every ResumeData returned, on the primary or the fallback path, no
\* two bullet points of all experience entries together start with the same
\* first word.
C11_UniqueStartingVerbs ==
    HasReturned =>
        \A p, q \in BulletPositions(result.value) :
            p # q => FirstWord(BulletAt(result.value, p))
                         # FirstWord(BulletAt(result.value, q))

\* The number of generation calls made so far.
GenerationCalls == Cardinality({i \in 1..Len(calls) : calls[i] = "generate"})

\* skill extraction was called and gave no Skills: it raised or returned None
ExtractionFailed == calls # <<>> /\ skills = NoneValue

\* C12: the generation call is made at most once per request and only after
\* skill extraction has returned its Skills; when skill extraction fails no
\* generation call is made and the request ends with the fallback result.
C12_GenerationAfterExtraction ==
    /\ GenerationCalls <= 1
    /\ \A i \in 1..Len(calls) :
           calls[i] = "generate" =>
               /\ i = 2
               /\ calls[1] = "extract"
               /\ skills \in ExtractedSkills
    /\ ExtractionFailed =>
           /\ GenerationCalls = 0
           /\ pc \notin {"extract", "generate"}
           /\ pc # "except" =>
                  result = Returned(legacy_generate_tailored_resume(
                                        job_description, experience_data, user_info))

\* skill extraction returned None: the request ended with the legacy resume
\* after the one extraction call alone
C12_Witness ==
    /\ Done
    /\ exception = "AttributeError"
    /\ skills = NoneValue
    /\ calls = <<"extract">>
    /\ result.kind = "returned"
    /\ result.value.experiences = PlaceholderExperiences

\* C13: the fallback path makes no call to an external service and completes
\* without raising: the step out of the handler leaves the log of calls as
\* it was and ends the request with a ResumeData returned.
C13_FallbackIsLocal ==
    [][pc = "except" =>
          /\ calls' = calls
          /\ pc' = "done"
          /\ result'.kind = "returned"
          /\ DOMAIN result'.value = ResumeDataFields
          /\ Len(result'.value.summary) > 0]_vars

\* the fallback ran after the extraction call raised, on the job description
\* with keywords and the experience text with headed sections
C13_Witness ==
    /\ HasReturned
    /\ exception = "APIError"
    /\ calls = <<"extract">>
    /\ job_description = JobDescriptionSkills
    /\ experience_data = ExperienceSections
    /\ result.value.summary = LocalSummary[job_description][experience_data]

(***************************************************************************)
(* The profile store of app.py: one JSON file per profile in the profiles  *)
(* directory.  `files` maps a file's stem to its content; a content is the *)
(* JSON document written and whether the write went through completely.    *)
(* Profile names are character sequences, as the key is computed from      *)
(* their characters.                                                       *)
(***************************************************************************)
\* The number of store operations in one run of the store model.
MaxOps == 4

\* str.replace(old, new) for one-character old and new
Replace(s, old, new) == [i \in 1..Len(s) |-> IF s[i] = old THEN new ELSE s[i]]

\* 'Al B', 'Al_B', 'Bo'
NameSpaced == <<"A", "l", " ", "B">>
NameUnderscored == <<"A", "l", "_", "B">>
NamePlain == <<"B", "o">>
ProfileNames == {NameSpaced, NameUnderscored, NamePlain}

EduMIT ==
    [university_name |-> "MIT", period |-> "2015-2019", location |-> "Cambridge, MA",
     degree |-> "B.S. Computer Science"]
EduBC ==
    [university_name |-> "Boston College", period |-> "2019-2021",
     location |-> "Boston, MA", degree |-> "M.S. Computer Science"]
JobAcme ==
    [company_name |-> "Acme", period |-> "Jan 2020 - Dec 2022", location |-> "Austin, TX"]
JobGlobex ==
    [company_name |-> "Globex", period |-> "Feb 2018 - Dec 2019", location |-> "Boston, MA"]

\* ProfileData values: every required field a string, linkedin Optional
ProfileBare ==
    [name |-> NameSpaced, title |-> "ML Engineer", email |-> "al@example.com",
     phone |-> "555-0101", location |-> "Austin, TX", linkedin |-> None,
     education |-> <<>>, employment_history |-> <<>>]
ProfileFull ==
    [name |-> NameSpaced, title |-> "Data Scientist", email |-> "al@example.com",
     phone |-> "555-0101", location |-> "Boston, MA", linkedin |-> LinkedinUrl,
     education |-> <<EduBC, EduMIT>>, employment_history |-> <<JobAcme, JobGlobex>>]
ProfileUnderscored ==
    [name |-> NameUnderscored, title |-> "Analyst", email |-> "alb@example.com",
     phone |-> "555-0103", location |-> "Austin, TX", linkedin |-> "",
     education |-> <<EduMIT>>, employment_history |-> <<JobGlobex, JobAcme>>]
ProfilePlain ==
    [name |-> NamePlain, title |-> "Engineer", email |-> "bo@example.com",
     phone |-> "555-0102", location |-> "Boston, MA", linkedin |-> None,
     education |-> <<EduMIT, EduBC>>, employment_history |-> <<JobAcme>>]
Profiles == {ProfileBare, ProfileFull, ProfileUnderscored, ProfilePlain}

\* JSON values
JString(s) == [type |-> "string", value |-> s]
JNull == [type |-> "null"]
JArray(items) == [type |-> "array", items |-> items]
\* members: a sequence of <<name, value>> pairs
JObject(members) == [type |-> "object", members |-> members]

EducationFields == <<"university_name", "period", "location", "degree">>
EmploymentFields == <<"company_name", "period", "location">>
RequiredFields == <<"name", "title", "email", "phone", "location">>

\* BaseModel.model_dump_json of a model whose fields are all strings
DumpStrings(model, fields) ==
    JObject([i \in 1..Len(fields) |-> <<fields[i], JString(model[fields[i]])>>])

\* a variant that writes an absent linkedin as the empty string
model_dump_json_blank(p) ==
    JObject(DumpStrings(p, RequiredFields).members \o
            << <<"linkedin", JString(IF p.linkedin = None THEN "" ELSE p.linkedin)>>,
               <<"education",
                 JArray([i \in 1..Len(p.education) |->
                            DumpStrings(p.education[i], EducationFields)])>>,
               <<"employment_history",
                 JArray([i \in 1..Len(p.employment_history) |->
                            DumpStrings(p.employment_history[i], EmploymentFields)])>> >>)

\* ProfileData.model_dump_json: the fields in declaration order, None as null
model_dump_json(p) ==
    JObject(DumpStrings(p, RequiredFields).members \o
            << <<"linkedin", IF p.linkedin = None THEN JNull ELSE JString(p.linkedin)>>,
               <<"education",
                 JArray([i \in 1..Len(p.education) |->
                            DumpStrings(p.education[i], EducationFields)])>>,
               <<"employment_history",
                 JArray([i \in 1..Len(p.employment_history) |->
                            DumpStrings(p.employment_history[i], EmploymentFields)])>> >>)

\* the content of a file: the document and whether all of it is there
Written(doc) == [document |-> doc, complete |-> TRUE]
Truncated(content) == [document |-> content.document, complete |-> FALSE]

\* json.load on an object: the dict's keys, and the value of a key (the last
\* member of that name wins)
Keys(obj) == {obj.members[i][1] : i \in 1..Len(obj.members)}
Member(obj, k) ==
    LET at == {i \in 1..Len(obj.members) : obj.members[i][1] = k}
    IN  obj.members[CHOOSE i \in at : \A j \in at : j <= i][2]

\* pydantic validation of a model whose fields are all required strings
ValidStrings(obj, fields) ==
    /\ obj.type = "object"
    /\ \A i \in 1..Len(fields) :
          /\ fields[i] \in Keys(obj)
          /\ Member(obj, fields[i]).type = "string"

LoadStrings(obj, fields) ==
    [k \in {fields[i] : i \in 1..Len(fields)} |-> Member(obj, k).value]

ValidList(obj, k, fields) ==
    k \in Keys(obj) =>
        /\ Member(obj, k).type = "array"
        /\ \A i \in 1..Len(Member(obj, k).items) :
              ValidStrings(Member(obj, k).items[i], fields)

LoadList(obj, k, fields) ==
    IF k \in Keys(obj)
    THEN [i \in 1..Len(Member(obj, k).items) |->
             LoadStrings(Member(obj, k).items[i], fields)]
    ELSE <<>>

\* ProfileData(**profile_data) accepts the document
ValidProfile(obj) ==
    /\ ValidStrings(obj, RequiredFields)
    /\ "linkedin" \in Keys(obj) => Member(obj, "linkedin").type \in {"string", "null"}
    /\ ValidList(obj, "education", EducationFields)
    /\ ValidList(obj, "employment_history", EmploymentFields)

\* ProfileData(**profile_data): absent optional fields take their defaults
ProfileData(obj) ==
    [name |-> Member(obj, "name").value,
     title |-> Member(obj, "title").value,
     email |-> Member(obj, "email").value,
     phone |-> Member(obj, "phone").value,
     location |-> Member(obj, "location").value,
     linkedin |-> IF "linkedin" \in Keys(obj) /\ Member(obj, "linkedin").type = "string"
                  THEN Member(obj, "linkedin").value ELSE None,
     education |-> LoadList(obj, "education", EducationFields),
     employment_history |-> LoadList(obj, "employment_history", EmploymentFields)]

\* profile_data.name.replace(' ', '_'): the stem save_profile writes to
ProfileKey(name) == Replace(name, " ", "_")

\* open(path, 'w') and write; Path.unlink
WriteFile(fs, k, content) ==
    [x \in DOMAIN fs \cup {k} |-> IF x = k THEN content ELSE fs[x]]
RemoveFile(fs, k) == [x \in DOMAIN fs \ {k} |-> fs[x]]

\* a save that leaves a file that is already there as it is
save_profile_keeping(fs, profile_data) ==
    LET k == ProfileKey(profile_data.name)
    IN  [files |-> IF k \in DOMAIN fs THEN fs
                   ELSE WriteFile(fs, k, Written(model_dump_json(profile_data))),
         out |-> Returned(k)]

\* save_profile: the store afterwards and the path returned
save_profile(fs, profile_data) ==
    LET k == ProfileKey(profile_data.name)
    IN  [files |-> WriteFile(fs, k, Written(model_dump_json(profile_data))),
         out |-> Returned(k)]

\* load_profile: None when there is no such file; json.load raises on a
\* document that is not all there; ProfileData(**...) raises on a document
\* that does not validate
load_profile(fs, profile_name) ==
    IF profile_name \notin DOMAIN fs THEN Returned(NoneValue)
    ELSE IF ~fs[profile_name].complete THEN Raised("JSONDecodeError")
    ELSE IF ~ValidProfile(fs[profile_name].document) THEN Raised("ValidationError")
    ELSE Returned(ProfileData(fs[profile_name].document))

\* a delete that unlinks without looking
delete_profile_unlinking(fs, profile_name) ==
    IF profile_name \in DOMAIN fs
    THEN [files |-> RemoveFile(fs, profile_name), out |-> Returned(TRUE)]
    ELSE [files |-> fs, out |-> Raised("FileNotFoundError")]

\* delete_profile: the store afterwards and the boolean returned
delete_profile(fs, profile_name) ==
    IF profile_name \in DOMAIN fs
    THEN [files |-> RemoveFile(fs, profile_name), out |-> Returned(TRUE)]
    ELSE [files |-> fs, out |-> Returned(FALSE)]

\* The orders in which glob("*.json") may yield the files.
GlobOrders(fs) ==
    {o \in [1..Cardinality(DOMAIN fs) -> DOMAIN fs] :
        \A i, j \in 1..Cardinality(DOMAIN fs) : o[i] = o[j] => i = j}

\* a listing that opens every record to read the name stored in it
get_available_profiles_loading(fs, order) ==
    IF \E k \in DOMAIN fs : load_profile(fs, k).kind = "raised"
    THEN Raised("JSONDecodeError")
    ELSE Returned([i \in 1..Len(order) |-> load_profile(fs, order[i]).value.name])

\* get_available_profiles: of every file the stem with '_' turned into ' '
get_available_profiles(fs, order) ==
    Returned([i \in 1..Len(order) |-> Replace(order[i], "_", " ")])

\* The names load_profile and delete_profile are called with: profile names
\* as typed and as the callers of app.py transform them.
StoreArgs == ProfileNames \cup {ProfileKey(n) : n \in ProfileNames}

Operation(op, arg, out) == [op |-> op, arg |-> arg, out |-> out]

InitStore ==
    /\ pc = "idle"
    /\ job_description = <<>>
    /\ experience_data = <<>>
    /\ user_info = NoneValue
    /\ skills = NoneValue
    /\ completion = NoneValue
    /\ resume_data = NoneValue
    /\ exception = None
    /\ result = NoResult
    /\ calls = <<>>
    /\ pdf_generator = None
    /\ page = <<>>
    /\ legacy_keywords = <<>>
    /\ legacy_summary = <<>>
    /\ files = EmptyStore
    /\ log = <<>>
    /\ target_job_title = <<>>
    /\ selected_profile = NoneValue
    /\ session_state = NoneValue
    /\ widgets = NoneValue
    /\ profile_kwargs = NoneValue
    /\ handles = <<>>
    /\ disk = <<>>

SaveProfile ==
    /\ Len(log) < MaxOps
    /\ \E p \in Profiles :
        /\ files' = save_profile(files, p).files
        /\ log' = Append(log, Operation("save", p, save_profile(files, p).out))
    /\ UNCHANGED <<request_vars, title_vars, form_vars, writer_vars>>

LoadProfile ==
    /\ Len(log) < MaxOps
    /\ \E name \in StoreArgs :
        log' = Append(log, Operation("load", name, load_profile(files, name)))
    /\ UNCHANGED <<files, request_vars, title_vars, form_vars, writer_vars>>

DeleteProfile ==
    /\ Len(log) < MaxOps
    /\ \E name \in StoreArgs :
        /\ files' = delete_profile(files, name).files
        /\ log' = Append(log, Operation("delete", name, delete_profile(files, name).out))
    /\ UNCHANGED <<request_vars, title_vars, form_vars, writer_vars>>

GetAvailableProfiles ==
    /\ Len(log) < MaxOps
    /\ \E order \in GlobOrders(files) :
        log' = Append(log, Operation("list", <<>>, get_available_profiles(files, order)))
    /\ UNCHANGED <<files, request_vars, title_vars, form_vars, writer_vars>>

\* The write of save_profile truncates the file and then writes the text:
\* a write cut short leaves a record that is not a whole JSON document.
TruncateRecord ==
    /\ Len(log) < MaxOps
    /\ \E k \in DOMAIN files :
        /\ files[k].complete
        /\ files' = [files EXCEPT ![k] = Truncated(files[k])]
        /\ log' = Append(log, Operation("truncate", k, NoResult))
    /\ UNCHANGED <<request_vars, title_vars, form_vars, writer_vars>>

NextStore ==
    \/ SaveProfile
    \/ LoadProfile
    \/ DeleteProfile
    \/ GetAvailableProfiles
    \/ TruncateRecord

SpecStore == InitStore /\ [][NextStore]_vars

(***************************************************************************)
(* Properties of the profile store.                                        *)
(***************************************************************************)
Last(seq) == seq[Len(seq)]

\* the log entry is the operation op with that argument and that outcome
Is(entry, op, arg, out) == entry.op = op /\ entry.arg = arg /\ entry.out = out

\* the step is a store operation of kind op
Performed(op) == log' # log /\ Last(log').op = op

\* C14: after save_profile(p), loading the record under the key save_profile
\* stored it under, p.name with spaces replaced by underscores, returns a
\* ProfileData equal to p in every field, the two lists in order included.
C14_RoundTrip ==
    \A i \in 1..(Len(log) - 1) :
        ( /\ log[i].op = "save"
          /\ log[i + 1].op = "load"
          /\ log[i + 1].arg = ProfileKey(log[i].arg.name) )
        => log[i + 1].out = Returned(log[i].arg)

\* a profile without linkedin and with empty lists, and one of the same name
\* with a linkedin URL and two entries in each list, each saved and loaded back
C14_Witness ==
    /\ Len(log) = 4
    /\ Is(log[1], "save", ProfileBare, Returned(NameUnderscored))
    /\ Is(log[2], "load", NameUnderscored, Returned(ProfileBare))
    /\ Is(log[3], "save", ProfileFull, Returned(NameUnderscored))
    /\ Is(log[4], "load", NameUnderscored, Returned(ProfileFull))

\* C15: load_profile(name) and delete_profile(name) address the record by
\* the key save_profile derives from the name: right after save_profile(p),
\* load_profile(p.name) returns p and delete_profile(p.name) returns True.
C15_SameKey ==
    \A i \in 1..(Len(log) - 1) :
        /\ ( /\ log[i].op = "save"
             /\ log[i + 1].op = "load"
             /\ log[i + 1].arg = log[i].arg.name )
           => log[i + 1].out = Returned(log[i].arg)
        /\ ( /\ log[i].op = "save"
             /\ log[i + 1].op = "delete"
             /\ log[i + 1].arg = log[i].arg.name )
           => log[i + 1].out = Returned(TRUE)

\* no save between positions i and j of the log wrote the file of stem k
NotSavedBetween(l, i, j, k) ==
    \A m \in (i + 1)..(j - 1) :
        l[m].op = "save" => ProfileKey(l[m].arg.name) # k

\* every load that follows a delete that returned True, with the same name
\* and no save of that name in between, returned None
NotFoundAfterDelete(l) ==
    \A i, j \in 1..Len(l) :
        ( /\ i < j
          /\ l[i].op = "delete"
          /\ l[i].out = Returned(TRUE)
          /\ l[j].op = "load"
          /\ l[j].arg = l[i].arg
          /\ NotSavedBetween(l, i, j, l[i].arg) )
        => l[j].out = Returned(NoneValue)

Occurrences(listing, n) == Cardinality({i \in 1..Len(listing) : listing[i] = n})

\* what followed two saves of the same name in a row: a load of the key gave
\* the second profile, a listing gave the name once
SecondSaveWins(l) ==
    \A i \in 1..(Len(l) - 2) :
        ( /\ l[i].op = "save"
          /\ l[i + 1].op = "save"
          /\ l[i + 1].arg.name = l[i].arg.name )
        => /\ ( l[i + 2].op = "load" /\ l[i + 2].arg = ProfileKey(l[i].arg.name) )
              => l[i + 2].out = Returned(l[i + 1].arg)
           /\ l[i + 2].op = "list"
              => Occurrences(l[i + 2].out.value,
                             Replace(ProfileKey(l[i].arg.name), "_", " ")) = 1

\* C17: saving a profile whose name already has a record overwrites it: the
\* store holds as many records as before, the record holds the second
\* profile's document alone, and loading it returns the second profile.
C17_Overwrite ==
    [][ /\ ( Performed("save")
             /\ ProfileKey(Last(log').arg.name) \in DOMAIN files ) =>
              /\ DOMAIN files' = DOMAIN files
              /\ files'[ProfileKey(Last(log').arg.name)]
                     = Written(model_dump_json(Last(log').arg))
        /\ SecondSaveWins(log') ]_vars

\* two different profiles of the same name saved one after the other, and
\* the record loaded back
C17_Witness ==
    /\ Len(log) = 3
    /\ Is(log[1], "save", ProfileFull, Returned(NameUnderscored))
    /\ Is(log[2], "save", ProfileBare, Returned(NameUnderscored))
    /\ Is(log[3], "load", NameUnderscored, Returned(ProfileBare))
    /\ DOMAIN files = {NameUnderscored}

\* the name of the profile stored in the record of stem k
StoredName(k) == Member(files[k].document, "name").value

\* C18: get_available_profiles returns exactly one name per stored record,
\* and each returned name is the original name of the profile stored in that
\* record.
C18_ListReversesKey ==
    ( /\ log # <<>>
      /\ Last(log).op = "list"
      /\ \A k \in DOMAIN files : files[k].complete )
    => /\ Last(log).out.kind = "returned"
       /\ Len(Last(log).out.value) = Cardinality(DOMAIN files)
       /\ \A k \in DOMAIN files :
              Occurrences(Last(log).out.value, StoredName(k)) = 1

\* the profile most recently saved to the file of stem k
LastSaved(k) ==
    LET at == {i \in 1..Len(log) :
                  log[i].op = "save" /\ ProfileKey(log[i].arg.name) = k}
    IN  log[CHOOSE i \in at : \A j \in at : j <= i].arg

Malformed == {k \in DOMAIN files : ~files[k].complete}

\* C19: when one stored record is malformed, load_profile of its key fails
\* with a decode error, get_available_profiles still enumerates every stored
\* record, and load_profile of every other key returns its profile.
C19_CorruptionIsLocal ==
    ( log # <<>> /\ Cardinality(Malformed) = 1 ) =>
        /\ ( Last(log).op = "load" /\ Last(log).arg \in Malformed )
           => Last(log).out = Raised("JSONDecodeError")
        /\ Last(log).op = "list"
           => /\ Last(log).out.kind = "returned"
              /\ Len(Last(log).out.value) = Cardinality(DOMAIN files)
              /\ \A k \in DOMAIN files :
                     Occurrences(Last(log).out.value, Replace(k, "_", " ")) = 1
        /\ ( Last(log).op = "load" /\ Last(log).arg \in DOMAIN files \ Malformed )
           => Last(log).out = Returned(LastSaved(Last(log).arg))

\* two records, the write of one cut short, and that one loaded
C19_Witness ==
    /\ Len(log) = 4
    /\ DOMAIN files = {NamePlain, NameUnderscored}
    /\ Malformed = {NamePlain}
    /\ Is(log[3], "truncate", NamePlain, NoResult)
    /\ Is(log[4], "load", NamePlain, Raised("JSONDecodeError"))

(***************************************************************************)
(* Properties of the generate handler of app.py.                           *)
(***************************************************************************)
Shown == pc = "shown"
Widgets == {page[i] : i \in 1..Len(page)}
RenderFailed == Shown /\ pdf_generator # None /\ "error" \in Widgets

\* C20: whenever the document renderer is absent or its generate_resume call
\* fails, the handler ends without crashing and offers the structured resume
\* data (JSON) as a substitute download.
C20_JsonSubstitute ==
    (Shown /\ (pdf_generator = None \/ RenderFailed)) =>
        "json_download" \in Widgets

(***************************************************************************)
(* Further properties of the post-generation override.                     *)
(***************************************************************************)
\* generate_tailored_resume is over (the handler may have gone on to render)
Ended == pc \in {"done", "shown"}

\* the generation call gave a parsed ResumeData
Generated == completion # NoneValue

\* C21: when the generation call returns fewer experience entries than the
\* employment history has, the override loop stops at the generated count
\* without raising, the fallback is not taken, and the returned ResumeData
\* has exactly the generated entries.
C21_FewerEntries ==
    (Ended /\ Generated /\ Len(completion.experiences) < Len(history)) =>
        /\ exception = None
        /\ result.kind = "returned"
        /\ result.value = PrimaryResume(resume_data, user_info)
        /\ Len(result.value.experiences) = Len(completion.experiences)
        /\ \A i \in 1..Len(completion.experiences) :
              /\ result.value.experiences[i].job_title
                     = completion.experiences[i].job_title
              /\ result.value.experiences[i].bullet_points
                     = completion.experiences[i].bullet_points
              /\ result.value.experiences[i].company_info = CompanyInfoOf(history[i])

\* three employment entries and one generated experience: one is returned
C21_Witness ==
    /\ pc = "done"
    /\ Generated
    /\ Len(history) = 3
    /\ Len(completion.experiences) = 1
    /\ Len(result.value.experiences) = 1
    /\ result.value.experiences # PlaceholderExperiences

\* C22: the override changes the company_info of experiences[i] for
\* i < min(len(experiences), len(employment_history)) and nothing else of
\* what the generation call wrote: every job_title and bullet_points, the
\* summary, the skills, and the company_info at every index
\* >= len(employment_history) are returned as generated.
C22_OverrideFrame ==
    (Ended /\ Generated) =>
        /\ result.value.summary = completion.summary
        /\ result.value.skills = completion.skills
        /\ Len(result.value.experiences) = Len(completion.experiences)
        /\ \A i \in 1..Len(completion.experiences) :
              /\ result.value.experiences[i].job_title
                     = completion.experiences[i].job_title
              /\ result.value.experiences[i].bullet_points
                     = completion.experiences[i].bullet_points
              /\ i > Len(history) =>
                     result.value.experiences[i].company_info
                         = completion.experiences[i].company_info

\* one employment entry, three generated experiences and a skills section:
\* the first company is the real one, the other two are the model's
C22_Witness ==
    /\ pc = "done"
    /\ Generated
    /\ Len(history) = 1
    /\ Len(completion.experiences) = 3
    /\ completion.skills # <<>>
    /\ result.value.experiences[1].company_info = CompanyInfoOf(history[1])
    /\ result.value.experiences[2].company_info.name = GenCompanies[2]
    /\ result.value.experiences[3].company_info.name = GenCompanies[3]

(***************************************************************************)
(* _extract_keywords and _generate_summary on their own: the two functions *)
(* applied to job descriptions and experience texts that reach the top-15  *)
(* cut, ties, the stopword list, the 3-section cut and the 1500 budget.    *)
\* C29: save_profile(p) changes only the record of p.name: the record of
\* every stored profile q with q.name # p.name, and what load_profile returns
\* for it, are the same after the save as before.
C29_SaveFrame ==
    [][Performed("save") =>
          \A k \in DOMAIN files :
              (files[k].complete /\ StoredName(k) # Last(log').arg.name) =>
                  /\ k \in DOMAIN files'
                  /\ files'[k] = files[k]
                  /\ load_profile(files', k) = load_profile(files, k)]_vars

(***************************************************************************)
(* Properties of the generate handler's title.                             *)
(***************************************************************************)
\* s is t without the whitespace at its two ends
Trimmed(t, s) ==
    /\ s # <<>>
    /\ s[1] \notin Whitespace
    /\ s[Len(s)] \notin Whitespace
    /\ \E a \in 1..Len(t) :
          /\ a + Len(s) - 1 <= Len(t)
          /\ s = SubSeq(t, a, a + Len(s) - 1)
          /\ \A i \in 1..Len(t) :
                (i < a \/ i > a + Len(s) - 1) => t[i] \in Whitespace

Blank(t) == \A i \in 1..Len(t) : t[i] \in Whitespace

\* C28: the title of the returned resume is the target job title without
\* its surrounding whitespace when that title is not blank, and the selected
\* profile's title otherwise, on the primary and on the fallback path and
\* whatever title the generation call returned.
C28_ResumeTitle ==
    (Ended /\ result.kind = "returned") =>
        IF Blank(target_job_title)
        THEN result.value.title = selected_profile.title
        ELSE Trimmed(target_job_title, result.value.title)

\* primary path, target ' QA ', a generated title that is neither
C28_Witness ==
    /\ Ended
    /\ result.kind = "returned"
    /\ exception = None
    /\ completion # NoneValue
    /\ target_job_title = <<" ", "Q", "A", " ">>
    /\ result.value.title = <<"Q", "A">>
    /\ completion.title # result.value.title
    /\ selected_profile.title # result.value.title

(***************************************************************************)
\* s * n
Repeat(s, n) == [i \in 1..(n * Len(s)) |-> s[((i - 1) % Len(s)) + 1]]

\* 'Data data DATA pipelines pipelines cloud cloud, the team will build models; alpha beta gamma delta theta kappa lambda sigma omega zeta iota python3 with you_all; Cloud'
JobDescriptionMany ==
    <<"D", "a", "t", "a", " ", "d", "a", "t", "a", " ", "D", "A", "T", "A", " ", "p", "i", "p",
      "e", "l", "i", "n", "e", "s", " ", "p", "i", "p", "e", "l", "i", "n", "e", "s", " ", "c",
      "l", "o", "u", "d", " ", "c", "l", "o", "u", "d", ",", " ", "t", "h", "e", " ", "t", "e",
      "a", "m", " ", "w", "i", "l", "l", " ", "b", "u", "i", "l", "d", " ", "m", "o", "d", "e",
      "l", "s", ";", " ", "a", "l", "p", "h", "a", " ", "b", "e", "t", "a", " ", "g", "a", "m",
      "m", "a", " ", "d", "e", "l", "t", "a", " ", "t", "h", "e", "t", "a", " ", "k", "a", "p",
      "p", "a", " ", "l", "a", "m", "b", "d", "a", " ", "s", "i", "g", "m", "a", " ", "o", "m",
      "e", "g", "a", " ", "z", "e", "t", "a", " ", "i", "o", "t", "a", " ", "p", "y", "t", "h",
      "o", "n", "3", " ", "w", "i", "t", "h", " ", "y", "o", "u", "_", "a", "l", "l", ";", " ",
      "C", "l", "o", "u", "d">>

\* 'With with WITH will code code Will tests'
JobDescriptionStopwords ==
    <<"W", "i", "t", "h", " ", "w", "i", "t", "h", " ", "W", "I", "T", "H", " ", "w", "i", "l",
      "l", " ", "c", "o", "d", "e", " ", "c", "o", "d", "e", " ", "W", "i", "l", "l", " ", "t",
      "e", "s", "t", "s">>

\* 'SQL sql Sql go'
JobDescriptionShort ==
    <<"S", "Q", "L", " ", "s", "q", "l", " ", "S", "q", "l", " ", "g", "o">>

\* 'Rust and Go; rust-lang, go! Lang rust_lang'
JobDescriptionTies ==
    <<"R", "u", "s", "t", " ", "a", "n", "d", " ", "G", "o", ";", " ", "r", "u", "s", "t", "-",
      "l", "a", "n", "g", ",", " ", "g", "o", "!", " ", "L", "a", "n", "g", " ", "r", "u", "s",
      "t", "_", "l", "a", "n", "g">>

\* 'Intro\n## A\n' + 'python skills team ' * 37 + '\n\nsecond\n## B\n' +
\* 'python team code ' * 41 + '\n### C\n' + 'python work ' * 58
ExperienceOverBudget ==
    <<"I", "n", "t", "r", "o", "\n", "#", "#", " ", "A", "\n">>
    \o Repeat(<<"p", "y", "t", "h", "o", "n", " ", "s", "k", "i", "l", "l", "s", " ", "t", "e", "a", "m",
             " ">>, 37)
    \o <<"\n", "\n", "s", "e", "c", "o", "n", "d", "\n", "#", "#", " ", "B", "\n">>
    \o Repeat(<<"p", "y", "t", "h", "o", "n", " ", "t", "e", "a", "m", " ", "c", "o", "d", "e", " ">>, 41)
    \o <<"\n", "#", "#", "#", " ", "C", "\n">>
    \o Repeat(<<"p", "y", "t", "h", "o", "n", " ", "w", "o", "r", "k", " ">>, 58)

\* 'Bio\n## X\n' + 'python skills team plus ' * 67 + '\n## Y\npython
\* skills para\n\nignored python\n## Z\npython'
ExperienceSkipsLong ==
    <<"B", "i", "o", "\n", "#", "#", " ", "X", "\n">>
    \o Repeat(<<"p", "y", "t", "h", "o", "n", " ", "s", "k", "i", "l", "l", "s", " ", "t", "e", "a", "m",
             " ", "p", "l", "u", "s", " ">>, 67)
    \o <<"\n", "#", "#", " ", "Y", "\n", "p", "y", "t", "h", "o", "n", " ", "s", "k", "i", "l", "l",
      "s", " ", "p", "a", "r", "a", "\n", "\n", "i", "g", "n", "o", "r", "e", "d", " ", "p", "y",
      "t", "h", "o", "n", "\n", "#", "#", " ", "Z", "\n", "p", "y", "t", "h", "o", "n">>

\* '## X\npython python python python\n## Y\npython and skills\n##
\* Z\nteam plus seeking skills\n## W\npython team plus'
ExperienceFour ==
    <<"#", "#", " ", "X", "\n", "p", "y", "t", "h", "o", "n", " ", "p", "y", "t", "h", "o", "n",
      " ", "p", "y", "t", "h", "o", "n", " ", "p", "y", "t", "h", "o", "n", "\n", "#", "#", " ",
      "Y", "\n", "p", "y", "t", "h", "o", "n", " ", "a", "n", "d", " ", "s", "k", "i", "l", "l",
      "s", "\n", "#", "#", " ", "Z", "\n", "t", "e", "a", "m", " ", "p", "l", "u", "s", " ", "s",
      "e", "e", "k", "i", "n", "g", " ", "s", "k", "i", "l", "l", "s", "\n", "#", "#", " ", "W",
      "\n", "p", "y", "t", "h", "o", "n", " ", "t", "e", "a", "m", " ", "p", "l", "u", "s">>

SummaryJobDescriptions ==
    JobDescriptions \cup {JobDescriptionMany, JobDescriptionStopwords,
                          JobDescriptionShort, JobDescriptionTies}
SummaryExperienceTexts ==
    ExperienceTexts \cup {ExperienceOverBudget, ExperienceSkipsLong, ExperienceFour}

\* what the two functions neither read nor write
outside_summary == <<user_info, skills, completion, resume_data, exception, result,
                     calls, handler_vars, store_vars, title_vars, form_vars,
                     writer_vars>>

InitSummary ==
    /\ pc = "keywords"
    /\ job_description \in SummaryJobDescriptions
    /\ experience_data \in SummaryExperienceTexts
    /\ user_info = NoneValue
    /\ skills = NoneValue
    /\ completion = NoneValue
    /\ resume_data = NoneValue
    /\ exception = None
    /\ result = NoResult
    /\ calls = <<>>
    /\ pdf_generator = None
    /\ page = <<>>
    /\ legacy_keywords = <<>>
    /\ legacy_summary = <<>>
    /\ files = EmptyStore
    /\ log = <<>>
    /\ target_job_title = <<>>
    /\ selected_profile = NoneValue
    /\ session_state = NoneValue
    /\ widgets = NoneValue
    /\ profile_kwargs = NoneValue
    /\ handles = <<>>
    /\ disk = <<>>

\* keywords = self._extract_keywords(job_description)
ExtractKeywords ==
    /\ pc = "keywords"
    /\ legacy_keywords' = extract_keywords(job_description)
    /\ pc' = "summary"
    /\ UNCHANGED <<job_description, experience_data, legacy_summary, outside_summary>>

\* summary = self._generate_summary(job_description, keywords)
GenerateSummary ==
    /\ pc = "summary"
    /\ legacy_summary' = generate_summary(experience_data, legacy_keywords)
    /\ pc' = "summarised"
    /\ UNCHANGED <<job_description, experience_data, legacy_keywords, outside_summary>>

NextSummary ==
    \/ ExtractKeywords
    \/ GenerateSummary

SpecSummary == InitSummary /\ [][NextSummary]_vars

(***************************************************************************)
(* Properties of _extract_keywords and _generate_summary.                  *)
(***************************************************************************)
KeywordsReturned == pc \in {"summary", "summarised"}
SummaryReturned == pc = "summarised"

Range(seq) == {seq[i] : i \in 1..Len(seq)}

\* how often each word of a list occurs in it, and where it occurs first
Frequencies(words) ==
    [w \in Range(words) |-> Cardinality({i \in 1..Len(words) : words[i] = w})]
FirstOccurrences(words) ==
    [w \in Range(words) |->
        CHOOSE i \in 1..Len(words) : words[i] = w /\ \A j \in 1..(i - 1) : words[j] # w]
\* the words that are no stopword and longer than 3
Eligible(words) == {w \in Range(words) : w \notin common_words /\ Len(w) > 3}

\* C23: _extract_keywords returns at most 15 distinct lowercase words of the
\* job description, none a stopword, none of length <= 3, ordered by
\* non-increasing frequency with ties in order of first occurrence, and no
\* eligible word left out is more frequent than a returned one.
C23_Keywords ==
    KeywordsReturned =>
        LET words == Findall(Lower(job_description))
            frequency == Frequencies(words)
            first == FirstOccurrences(words)
            eligible == Eligible(words)
            returned == legacy_keywords
        IN  /\ Len(returned) <= 15
            /\ Len(returned) = Min(15, Cardinality(eligible))
            /\ \A i \in 1..Len(returned) :
                  /\ returned[i] \in eligible
                  /\ Lower(returned[i]) = returned[i]
            /\ \A i, j \in 1..Len(returned) :
                  i < j =>
                      /\ returned[i] # returned[j]
                      /\ \/ frequency[returned[i]] > frequency[returned[j]]
                         \/ /\ frequency[returned[i]] = frequency[returned[j]]
                            /\ first[returned[i]] < first[returned[j]]
            /\ \A w \in eligible \ Range(returned) :
                  \A i \in 1..Len(returned) : frequency[w] <= frequency[returned[i]]

\* a job description with 17 eligible words, the third of them as frequent
\* as the first: 15 returned, 'data' then 'cloud' then 'pipelines'
C23_Witness ==
    /\ KeywordsReturned
    /\ job_description = JobDescriptionMany
    /\ Cardinality(Eligible(Findall(Lower(job_description)))) = 17
    /\ Len(legacy_keywords) = 15
    /\ legacy_keywords[1] = <<"d", "a", "t", "a">>
    /\ legacy_keywords[2] = <<"c", "l", "o", "u", "d">>
    /\ legacy_keywords[3] = <<"p", "i", "p", "e", "l", "i", "n", "e", "s">>

\* how many times the keywords occur in a section, all occurrences counted
TotalOccurrences(section, keywords) == Cardinality(KeywordPlaces(section, keywords))

\* how many of the keywords occur in a section
KeywordsPresent(section, keywords) ==
    LET lowered == Lower(section)
    IN  Cardinality({k \in Range(keywords) : IsSubstring(k, lowered)})

\* C24 as claimed: a section in which keywords occur more times in total
\* ranks above a section in which they occur fewer times.
C24_TotalOccurrences ==
    SummaryReturned =>
        LET ranking == RankedSections(experience_data, legacy_keywords)
            total == [i \in 1..Len(ranking) |->
                         TotalOccurrences(ranking[i][1], legacy_keywords)]
        IN  \A i, j \in 1..Len(ranking) : total[i] > total[j] => i < j

\* C24 as amended: the score of a section is the number of keywords that
\* occur in it, each counted once however often it occurs; the ranking holds
\* the sections with a positive score, higher scores first.
C24_KeywordsPresent ==
    SummaryReturned =>
        LET ranking == RankedSections(experience_data, legacy_keywords)
            sections == SplitHeadings(experience_data)
            present == [k \in 1..Len(sections) |->
                           KeywordsPresent(sections[k], legacy_keywords)]
            scored == {k \in 1..Len(sections) : present[k] > 0}
        IN  /\ Len(ranking) = Cardinality(scored)
            /\ \A i \in 1..Len(ranking) :
                  \E k \in scored : /\ sections[k] = ranking[i][1]
                                    /\ present[k] = ranking[i][2]
            /\ \A i, j \in 1..Len(ranking) :
                  i < j => ranking[i][2] >= ranking[j][2]

\* four sections: 'python' four times in one of them (one keyword), two
\* keywords once each in another, which ranks above it
C24_Witness ==
    /\ SummaryReturned
    /\ experience_data = ExperienceFour
    /\ job_description = JobDescriptionSkills
    /\ LET ranking == RankedSections(experience_data, legacy_keywords)
       IN  /\ Len(ranking) = 4
           /\ TotalOccurrences(ranking[4][1], legacy_keywords) = 4
           /\ ranking[4][2] = 1
           /\ TotalOccurrences(ranking[3][1], legacy_keywords) = 2
           /\ ranking[3][2] = 2

\* the first paragraphs of the (at most) 3 highest-ranked sections
TopParagraphs(ranking) ==
    [i \in 1..Min(3, Len(ranking)) |-> FirstParagraph(ranking[i][1])]

\* the paragraphs at the positions I, in order
Chosen(paragraphs, I) ==
    LET at == Ascending(I) IN [k \in 1..Cardinality(I) |-> paragraphs[at[k]]]

\* the sum of the lengths at the positions I
RECURSIVE CombinedLength(_, _)
CombinedLength(lengths, I) ==
    IF I = {} THEN 0
    ELSE LET i == CHOOSE x \in I : TRUE
         IN  lengths[i] + CombinedLength(lengths, I \ {i})

\* C25: the summary holds only first paragraphs of the 3 highest-scoring
\* sections, in descending score order; the combined length of the included
\* paragraphs is at most 1500, a paragraph being left out exactly when it
\* would exceed that budget; a text shorter than 100 characters gets the
\* generic closing statement, so the summary is never empty.
C25_SummaryBudget ==
    SummaryReturned =>
        LET top == TopParagraphs(RankedSections(experience_data, legacy_keywords))
            lengths == [i \in 1..Len(top) |-> Len(top[i])]
            Fits(I) ==
                /\ CombinedLength(lengths, I) <= 1500
                /\ \A i \in 1..Len(top) :
                      i \notin I <=>
                          CombinedLength(lengths, {j \in I : j < i}) + lengths[i] > 1500
            Text(I) == Join(<<" ">>, Chosen(top, I))
            Padded(text) == IF Len(text) < 100 THEN text \o GenericStatement ELSE text
        IN  /\ Len(legacy_summary) > 0
            /\ \E I \in SUBSET (1..Len(top)) :
                  Fits(I) /\ legacy_summary = Padded(Text(I))

\* three sections with first paragraphs of about 700 characters each: the
\* first two are in the summary, the third would exceed the budget
C25_Witness ==
    /\ SummaryReturned
    /\ experience_data = ExperienceOverBudget
    /\ job_description = JobDescriptionSkills
    /\ LET top == TopParagraphs(RankedSections(experience_data, legacy_keywords))
       IN  /\ Len(top) = 3
           /\ Len(top[1]) + Len(top[2]) <= 1500
           /\ Len(top[1]) + Len(top[2]) + Len(top[3]) > 1500
           /\ legacy_summary = Join(<<" ">>, <<top[1], top[2]>>)

(***************************************************************************)
(* The "Create New Profile" form of app.py.  The script runs from top to   *)
(* bottom on every button of the form; the values of the inputs and        *)
(* st.session_state outlive a run, the locals do not.                      *)
(***************************************************************************)
BlankEmployment == [company_name |-> "", period |-> "", location |-> ""]
PartialEmployment == [company_name |-> "Acme", period |-> "", location |-> ""]
EmploymentInputs == {BlankEmployment, PartialEmployment, JobAcme}

BlankEducation == [university_name |-> "", period |-> "", location |-> "", degree |-> ""]
EducationInputs == {BlankEducation, EduMIT}

NameInputs == {<<>>, NameSpaced}
EmailInputs == {"", "al@example.com"}
LocationInputs == {"", "Austin, TX"}
LinkedinInputs == {"", LinkedinUrl}

\* all([company_name, job_period, job_location])
AllEmployment(e) == e.company_name # "" /\ e.period # "" /\ e.location # ""
\* all([university, period, location_edu, degree])
AllEducation(e) ==
    e.university_name # "" /\ e.period # "" /\ e.location # "" /\ e.degree # ""
\* all([name, email, location])
AllRequired(w) == w.name # <<>> /\ w.email # "" /\ w.location # ""

\* employment_entries and education_entries: the entries whose inputs are
\* all filled, of those the counters let the script draw
employment_entries(w) == SelectSeq(w.employment, AllEmployment)
education_entries(w) == SelectSeq(w.education, AllEducation)

\* the keyword arguments of ProfileData(...) on the form's submit
FormKwargs(w) ==
    JObject(<< <<"name", JString(w.name)>>,
               <<"email", JString(w.email)>>,
               <<"location", JString(w.location)>>,
               <<"linkedin", IF w.linkedin # "" THEN JString(w.linkedin) ELSE JNull>>,
               <<"education",
                 JArray([i \in 1..Len(education_entries(w)) |->
                            DumpStrings(education_entries(w)[i], EducationFields)])>>,
               <<"employment_history",
                 JArray([i \in 1..Len(employment_entries(w)) |->
                            DumpStrings(employment_entries(w)[i], EmploymentFields)])>> >>)

InitForm ==
    /\ pc = "rendered"
    /\ session_state = [num_employment_entries |-> 1, num_education_entries |-> 1]
    /\ widgets = [name |-> <<>>, email |-> "", location |-> "", linkedin |-> "",
                  employment |-> <<BlankEmployment>>,
                  education |-> <<BlankEducation>>]
    /\ profile_kwargs = NoneValue
    /\ page = <<>>
    /\ exception = None
    /\ files = EmptyStore
    /\ log = <<>>
    /\ job_description = <<>>
    /\ experience_data = <<>>
    /\ user_info = NoneValue
    /\ skills = NoneValue
    /\ completion = NoneValue
    /\ resume_data = NoneValue
    /\ result = NoResult
    /\ calls = <<>>
    /\ pdf_generator = None
    /\ legacy_keywords = <<>>
    /\ legacy_summary = <<>>
    /\ target_job_title = <<>>
    /\ selected_profile = NoneValue
    /\ handles = <<>>
    /\ disk = <<>>

\* what the form neither reads nor writes
outside_form == <<job_description, experience_data, user_info, skills, completion,
                  resume_data, result, calls, pdf_generator, legacy_keywords,
                  legacy_summary, log, title_vars, writer_vars>>

\* the user types into one input of the form; no script runs
EditForm ==
    /\ \/ \E v \in NameInputs : widgets' = [widgets EXCEPT !.name = v]
       \/ \E v \in EmailInputs : widgets' = [widgets EXCEPT !.email = v]
       \/ \E v \in LocationInputs : widgets' = [widgets EXCEPT !.location = v]
       \/ \E v \in LinkedinInputs : widgets' = [widgets EXCEPT !.linkedin = v]
       \/ \E i \in 1..Len(widgets.employment), v \in EmploymentInputs :
              widgets' = [widgets EXCEPT !.employment[i] = v]
       \/ \E i \in 1..Len(widgets.education), v \in EducationInputs :
              widgets' = [widgets EXCEPT !.education[i] = v]
    /\ widgets' # widgets
    /\ pc' = "editing"
    /\ UNCHANGED <<session_state, profile_kwargs, page, exception, files, outside_form>>

\* a click on "Add Another Employment" with no test of the counter
AddAnotherEmploymentUnguarded ==
    /\ session_state.num_employment_entries < 5
    /\ session_state' = [session_state EXCEPT !.num_employment_entries = @ + 1]
    /\ widgets' = [widgets EXCEPT !.employment = Append(@, BlankEmployment)]
    /\ profile_kwargs' = NoneValue
    /\ page' = <<>>
    /\ exception' = None
    /\ pc' = "rendered"
    /\ UNCHANGED <<files, outside_form>>

\* a click on "Add Another Employment": the button is there while the counter
\* is below 3; the counter goes up and st.rerun() draws one more entry
AddAnotherEmployment ==
    /\ session_state.num_employment_entries < MaxEmploymentEntries
    /\ session_state' = [session_state EXCEPT !.num_employment_entries = @ + 1]
    /\ widgets' = [widgets EXCEPT !.employment = Append(@, BlankEmployment)]
    /\ profile_kwargs' = NoneValue
    /\ page' = <<>>
    /\ exception' = None
    /\ pc' = "rendered"
    /\ UNCHANGED <<files, outside_form>>

\* a click on "Add Another Education": the same, below 2
AddAnotherEducation ==
    /\ session_state.num_education_entries < MaxEducationEntries
    /\ session_state' = [session_state EXCEPT !.num_education_entries = @ + 1]
    /\ widgets' = [widgets EXCEPT !.education = Append(@, BlankEducation)]
    /\ profile_kwargs' = NoneValue
    /\ page' = <<>>
    /\ exception' = None
    /\ pc' = "rendered"
    /\ UNCHANGED <<files, outside_form>>

\* a run of the script that no button of the form started
Rerun ==
    /\ pc' = "rendered"
    /\ profile_kwargs' = NoneValue
    /\ page' = <<>>
    /\ exception' = None
    /\ UNCHANGED <<session_state, widgets, files, outside_form>>

\* a click on "Save Profile": ProfileData(...) is built from name, email,
\* location, linkedin and the two lists, and raises when the arguments do not
\* validate; the script stops there and Streamlit shows the exception
SubmitSaveProfile ==
    /\ pc' = "submitted"
    /\ IF AllRequired(widgets)
       THEN /\ profile_kwargs' = FormKwargs(widgets)
            /\ IF ValidProfile(FormKwargs(widgets))
               THEN /\ files' = save_profile(files, ProfileData(FormKwargs(widgets))).files
                    /\ page' = <<"success">>
                    /\ exception' = None
               ELSE /\ exception' = "ValidationError"
                    /\ page' = <<"exception">>
                    /\ UNCHANGED files
       ELSE /\ profile_kwargs' = NoneValue
            /\ page' = <<"error">>
            /\ exception' = None
            /\ UNCHANGED files
    /\ UNCHANGED <<session_state, widgets, outside_form>>

NextForm ==
    \/ EditForm
    \/ AddAnotherEmployment
    \/ AddAnotherEducation
    \/ Rerun
    \/ SubmitSaveProfile

SpecForm == InitForm /\ [][NextForm]_vars

(***************************************************************************)
(* Properties of the profile form.                                         *)
(***************************************************************************)
Submitted == pc = "submitted"

\* the store holds the record of the name in the form
RecordWritten == ProfileKey(widgets.name) \in DOMAIN files

\* C26: a 'Save Profile' submission writes a profile record if and only if
\* name, email and location are all non-empty; a submission missing any of
\* them is rejected with an error message and leaves the store unchanged.
C26_SaveIffRequired ==
    Submitted =>
        /\ AllRequired(widgets) <=> RecordWritten
        /\ ~AllRequired(widgets) => page = <<"error">> /\ files = EmptyStore

\* C27: num_employment_entries stays in 1..3 and num_education_entries in
\* 1..2, a step changes a counter by adding 1 to it or not at all, and the
\* lists given to ProfileData hold at most 3 employment and 2 education
\* entries.
C27_Counters ==
    /\ [](/\ session_state.num_employment_entries \in 1..3
          /\ session_state.num_education_entries \in 1..2
          /\ Len(widgets.employment) = session_state.num_employment_entries
          /\ Len(widgets.education) = session_state.num_education_entries
          /\ profile_kwargs # NoneValue =>
                /\ Len(Member(profile_kwargs, "employment_history").items) <= 3
                /\ Len(Member(profile_kwargs, "education").items) <= 2)
    /\ [][/\ session_state'.num_employment_entries - session_state.num_employment_entries
                 \in {0, 1}
          /\ session_state'.num_education_entries - session_state.num_education_entries
                 \in {0, 1}]_vars

\* both counters at their ends and a submission with every entry filled
C27_Witness ==
    /\ Submitted
    /\ session_state.num_employment_entries = 3
    /\ session_state.num_education_entries = 2
    /\ profile_kwargs # NoneValue
    /\ Len(Member(profile_kwargs, "employment_history").items) = 3
    /\ Len(Member(profile_kwargs, "education").items) = 2

(***************************************************************************)
(* Two save_profile calls on one file at the same time.  Each is           *)
(* open(profile_path, 'w'), which empties the file and puts the new file   *)
(* object at position 0, and the write of the whole document when the      *)
(* with-block closes the file object; the document is smaller than the     *)
(* file object's buffer, so it reaches the file in one piece.              *)
(***************************************************************************)
\* the characters of the strings that occur in the stored profiles
Chars(s) ==
    CASE s = "name" -> <<"n", "a", "m", "e">>
      [] s = "title" -> <<"t", "i", "t", "l", "e">>
      [] s = "email" -> <<"e", "m", "a", "i", "l">>
      [] s = "phone" -> <<"p", "h", "o", "n", "e">>
      [] s = "location" -> <<"l", "o", "c", "a", "t", "i", "o", "n">>
      [] s = "linkedin" -> <<"l", "i", "n", "k", "e", "d", "i", "n">>
      [] s = "education" -> <<"e", "d", "u", "c", "a", "t", "i", "o", "n">>
      [] s = "employment_history" ->
             <<"e", "m", "p", "l", "o", "y", "m", "e", "n", "t", "_", "h", "i", "s",
               "t", "o", "r", "y">>
      [] s = "university_name" ->
             <<"u", "n", "i", "v", "e", "r", "s", "i", "t", "y", "_", "n", "a", "m",
               "e">>
      [] s = "period" -> <<"p", "e", "r", "i", "o", "d">>
      [] s = "degree" -> <<"d", "e", "g", "r", "e", "e">>
      [] s = "company_name" ->
             <<"c", "o", "m", "p", "a", "n", "y", "_", "n", "a", "m", "e">>
      [] s = "ML Engineer" -> <<"M", "L", " ", "E", "n", "g", "i", "n", "e", "e", "r">>
      [] s = "Data Scientist" ->
             <<"D", "a", "t", "a", " ", "S", "c", "i", "e", "n", "t", "i", "s", "t">>
      [] s = "Analyst" -> <<"A", "n", "a", "l", "y", "s", "t">>
      [] s = "Engineer" -> <<"E", "n", "g", "i", "n", "e", "e", "r">>
      [] s = "al@example.com" ->
             <<"a", "l", "@", "e", "x", "a", "m", "p", "l", "e", ".", "c", "o", "m">>
      [] s = "alb@example.com" ->
             <<"a", "l", "b", "@", "e", "x", "a", "m", "p", "l", "e", ".", "c", "o",
               "m">>
      [] s = "bo@example.com" ->
             <<"b", "o", "@", "e", "x", "a", "m", "p", "l", "e", ".", "c", "o", "m">>
      [] s = "555-0101" -> <<"5", "5", "5", "-", "0", "1", "0", "1">>
      [] s = "555-0102" -> <<"5", "5", "5", "-", "0", "1", "0", "2">>
      [] s = "555-0103" -> <<"5", "5", "5", "-", "0", "1", "0", "3">>
      [] s = "Austin, TX" -> <<"A", "u", "s", "t", "i", "n", ",", " ", "T", "X">>
      [] s = "Boston, MA" -> <<"B", "o", "s", "t", "o", "n", ",", " ", "M", "A">>
      [] s = "Cambridge, MA" ->
             <<"C", "a", "m", "b", "r", "i", "d", "g", "e", ",", " ", "M", "A">>
      [] s = "https://www.linkedin.com/in/username" ->
             <<"h", "t", "t", "p", "s", ":", "/", "/", "w", "w", "w", ".", "l", "i",
               "n", "k", "e", "d", "i", "n", ".", "c", "o", "m", "/", "i", "n", "/",
               "u", "s", "e", "r", "n", "a", "m", "e">>
      [] s = "" -> <<>>
      [] s = "MIT" -> <<"M", "I", "T">>
      [] s = "2015-2019" -> <<"2", "0", "1", "5", "-", "2", "0", "1", "9">>
      [] s = "B.S. Computer Science" ->
             <<"B", ".", "S", ".", " ", "C", "o", "m", "p", "u", "t", "e", "r", " ",
               "S", "c", "i", "e", "n", "c", "e">>
      [] s = "Boston College" ->
             <<"B", "o", "s", "t", "o", "n", " ", "C", "o", "l", "l", "e", "g", "e">>
      [] s = "2019-2021" -> <<"2", "0", "1", "9", "-", "2", "0", "2", "1">>
      [] s = "M.S. Computer Science" ->
             <<"M", ".", "S", ".", " ", "C", "o", "m", "p", "u", "t", "e", "r", " ",
               "S", "c", "i", "e", "n", "c", "e">>
      [] s = "Acme" -> <<"A", "c", "m", "e">>
      [] s = "Jan 2020 - Dec 2022" ->
             <<"J", "a", "n", " ", "2", "0", "2", "0", " ", "-", " ", "D", "e", "c",
               " ", "2", "0", "2", "2">>
      [] s = "Globex" -> <<"G", "l", "o", "b", "e", "x">>
      [] s = "Feb 2018 - Dec 2019" ->
             <<"F", "e", "b", " ", "2", "0", "1", "8", " ", "-", " ", "D", "e", "c",
               " ", "2", "0", "1", "9">>

Quote(text) == <<"\"">> \o text \o <<"\"">>
Indent(n) == [i \in 1..n |-> " "]

\* '"key": value' at an indentation
MemberText(n, key, text) == Indent(n) \o Quote(Chars(key)) \o <<":", " ">> \o text

\* an object of string fields whose closing brace is at indentation n
StringsText(model, fields, n) ==
    <<"{", "\n">>
    \o Join(<<",", "\n">>,
            [i \in 1..Len(fields) |->
                MemberText(n + 2, fields[i], Quote(Chars(model[fields[i]])))])
    \o <<"\n">> \o Indent(n) \o <<"}">>

\* a list of such objects, the list's member being at indentation n
ListText(items, fields, n) ==
    IF items = <<>> THEN <<"[", "]">>
    ELSE <<"[", "\n">>
         \o Join(<<",", "\n">>,
                 [i \in 1..Len(items) |->
                     Indent(n + 2) \o StringsText(items[i], fields, n + 2)])
         \o <<"\n">> \o Indent(n) \o <<"]">>

\* profile_data.model_dump_json(indent=2), character by character
ProfileText(p) ==
    <<"{", "\n">>
    \o Join(<<",", "\n">>,
            << MemberText(2, "name", Quote(p.name)),
               MemberText(2, "title", Quote(Chars(p.title))),
               MemberText(2, "email", Quote(Chars(p.email))),
               MemberText(2, "phone", Quote(Chars(p.phone))),
               MemberText(2, "location", Quote(Chars(p.location))),
               MemberText(2, "linkedin",
                          IF p.linkedin = None THEN <<"n", "u", "l", "l">>
                          ELSE Quote(Chars(p.linkedin))),
               MemberText(2, "education", ListText(p.education, EducationFields, 2)),
               MemberText(2, "employment_history",
                          ListText(p.employment_history, EmploymentFields, 2)) >>)
    \o <<"\n", "}">>

\* write(2) of text at a position within a file: what lies before the
\* position and beyond the text stays
WriteAt(content, position, text) ==
    LET end == position + Len(text)
    IN  [i \in 1..(IF Len(content) > end THEN Len(content) ELSE end) |->
            IF i > position /\ i <= end THEN text[i - position] ELSE content[i]]

Writers == {1, 2}

\* the profiles the two calls save: one file name for the three
WriterProfiles == {ProfileBare, ProfileFull, ProfileUnderscored}

InitWriters ==
    /\ pc = "idle"
    /\ handles \in [Writers -> [state : {"called"}, position : {0},
                                profile_data : WriterProfiles]]
    /\ disk \in {EmptyStore,
                 WriteFile(EmptyStore, NameUnderscored, ProfileText(ProfileUnderscored))}
    /\ log = <<>>
    /\ files = EmptyStore
    /\ job_description = <<>>
    /\ experience_data = <<>>
    /\ user_info = NoneValue
    /\ skills = NoneValue
    /\ completion = NoneValue
    /\ resume_data = NoneValue
    /\ exception = None
    /\ result = NoResult
    /\ calls = <<>>
    /\ pdf_generator = None
    /\ page = <<>>
    /\ legacy_keywords = <<>>
    /\ legacy_summary = <<>>
    /\ target_job_title = <<>>
    /\ selected_profile = NoneValue
    /\ session_state = NoneValue
    /\ widgets = NoneValue
    /\ profile_kwargs = NoneValue

\* open(profile_path, 'w'): the file is there and empty, the position is 0
OpenForWrite(w) ==
    /\ handles[w].state = "called"
    /\ handles' = [handles EXCEPT ![w].state = "open", ![w].position = 0]
    /\ disk' = WriteFile(disk, ProfileKey(handles[w].profile_data.name), <<>>)
    /\ log' = Append(log, Operation("open", w, NoResult))
    /\ UNCHANGED <<files, request_vars, title_vars, form_vars>>

\* f.write(...) and the end of the with-block: the document goes to the file
\* at the file object's position
WriteAndClose(w) ==
    /\ handles[w].state = "open"
    /\ LET k == ProfileKey(handles[w].profile_data.name)
           text == ProfileText(handles[w].profile_data)
       IN  /\ disk' = WriteFile(disk, k, WriteAt(disk[k], handles[w].position, text))
           /\ handles' = [handles EXCEPT ![w].state = "closed",
                                         ![w].position = @ + Len(text)]
    /\ log' = Append(log, Operation("write", w, NoResult))
    /\ UNCHANGED <<files, request_vars, title_vars, form_vars>>

NextWriters ==
    \/ \E w \in Writers : OpenForWrite(w)
    \/ \E w \in Writers : WriteAndClose(w)

SpecWriters == InitWriters /\ [][NextWriters]_vars

(***************************************************************************)
(* Properties of save_profile calls that run at the same time.             *)
(***************************************************************************)
BothCompleted == \A w \in Writers : handles[w].state = "closed"

\* the call that wrote last
LastWriter == Last(log).arg

\* C30: once two interleaved save_profile calls for one key have both
\* completed, the stored record is, in full, the document of the call that
\* wrote last.
C30_LastWriterWins ==
    BothCompleted =>
        disk[NameUnderscored] = ProfileText(handles[LastWriter].profile_data)

====
